---------------------------- MODULE Spec2Model ----------------------------
(***************************************************************************)
(* A model of the genetic-algorithm engine of package ga (ga/ga.go) and of *)
(* the route chromosome (ga/tsp.go), with the averaging MockChromosome of  *)
(* ga/ga_test.go as the second candidate type.                             *)
(*                                                                         *)
(* float64 scores are modelled as exact rationals <<numerator,             *)
(* denominator>> in lowest terms with a positive denominator; rounding is  *)
(* not modelled.  Candidates are heap objects named by positive integers,  *)
(* so that "the same object" and "a copy" are different things; 0 is nil.  *)
(* A random source is a stream of raw values that is revealed as it is     *)
(* read: a seeded source gives every reader of the same seed the same      *)
(* value at the same position.                                             *)
(***************************************************************************)
EXTENDS Integers, Sequences, FiniteSets, TLC

\* ------------------------------------------------------------------ bounds
\* Largest generation budget explored.
MaxGen == 3
\* Number of distinct raw values one draw of a random source can return.
RawMax == 2
\* Largest number of extra draws of Mutate's "for i == j" loop explored.
MaxRedraw == 1
\* Largest route explored by the route-operator specifications.
MaxCities == 4
\* Largest number of Mutate calls made on one route.
MaxMutations == 2
\* Largest population handed to a selector called on its own.
MaxPopulation == 3

\* The nil Chromosome.
Nil == 0

\* ------------------------------------------------------------ float64 model
RECURSIVE GCD(_, _)
GCD(a, b) == IF b = 0 THEN a ELSE GCD(b, a % b)

Abs(n) == IF n < 0 THEN -n ELSE n

\* The rational n/d (d # 0) in lowest terms with a positive denominator.
Rat(n, d) ==
    LET s == IF d < 0 THEN -1 ELSE 1
        g == GCD(Abs(n), Abs(d))
    IN  <<(s * n) \div g, (s * d) \div g>>

Zero == <<0, 1>>
RAdd(a, b) == Rat(a[1] * b[2] + b[1] * a[2], a[2] * b[2])
RSub(a, b) == Rat(a[1] * b[2] - b[1] * a[2], a[2] * b[2])
RHalf(a) == Rat(a[1], 2 * a[2])
RLt(a, b) == a[1] * b[2] < b[1] * a[2]
RGt(a, b) == RLt(b, a)
RLe(a, b) == ~RLt(b, a)
RGe(a, b) == ~RLt(a, b)

\* Positions of a Go slice are 0-based; At reads position i of slice s.
At(s, i) == s[i + 1]
Put(s, i, v) == [s EXCEPT ![i + 1] = v]

\* --------------------------------------------------------- random sources
\* rng.Intn(n) of the raw value r: a value of 0..n-1.
Intn(r, n) == r % n
\* rng.Float64() of the raw value r: a value of [0, 1).
Float64(r) == Rat(r, RawMax)
Raw == 0 .. (RawMax - 1)

\* A revealed stream keeps the values at positions base, base+1, ...
\* Reading k values at position p agrees with what is revealed and reveals
\* the rest.
Agrees(st, p, d) ==
    \A j \in 1 .. Len(d) :
        (p + j - st.base <= Len(st.vals)) => d[j] = st.vals[p + j - st.base]

Reveal(st, p, d) ==
    LET known == Len(st.vals) - (p - st.base)
    IN  [st EXCEPT !.vals = @ \o SubSeq(d, known + 1, Len(d))]

\* Values no reader will read again are forgotten.
Forget(st, low) ==
    IF low <= st.base THEN st
    ELSE [base |-> low, vals |-> SubSeq(st.vals, low - st.base + 1, Len(st.vals))]

\* ------------------------------------------------------------- ga/tsp.go
\* type City.  Coordinates are integers here, and the routes explored keep
\* their points on one line or on 3-4-5 triangles, so that every distance
\* is an integer and math.Sqrt is exact.
City(name, x, y) == [Name |-> name, X |-> x, Y |-> y]
\* The zero value of City, which make([]City, n) fills a route with.
ZeroCity == City("", 0, 0)

Sqrt(n) == CHOOSE r \in 0 .. n : r * r = n

distance(city1, city2) ==
    LET dx == city1.X - city2.X
        dy == city1.Y - city2.Y
    IN  Sqrt(dx * dx + dy * dy)

RECURSIVE SumLegs(_, _)
SumLegs(route, i) ==
    IF i >= Len(route) - 1 THEN 0
    ELSE distance(At(route, i), At(route, i + 1)) + SumLegs(route, i + 1)

\* A mutant of TotalDistance that leaves out the edge back to the start.
TotalDistanceOpen(route) == SumLegs(route, 0)

\* The total distance of the closed tour, for a route of at least 2 points.
TotalDistance(route) ==
    SumLegs(route, 0) + distance(At(route, Len(route) - 1), At(route, 0))

\* TSPChromosome.Fitness
TSPFitness(route) ==
    IF Len(route) < 2 THEN Zero
    ELSE IF TotalDistance(route) = 0 THEN Zero
    ELSE Rat(1, TotalDistance(route))

\* A mutant of OXFill that walks parent2 from its first point.
RECURSIVE OXFillFromFirstPoint(_, _, _, _, _, _)
OXFillFromFirstPoint(childRoute, childIndex, i, parent2, end, inChild) ==
    IF i >= Len(parent2) THEN childRoute
    ELSE LET city == At(parent2, i)
         IN  IF city.Name \notin inChild
             THEN OXFillFromFirstPoint(Put(childRoute, childIndex, city),
                                       (childIndex + 1) % Len(childRoute),
                                       i + 1, parent2, end, inChild)
             ELSE OXFillFromFirstPoint(childRoute, childIndex, i + 1, parent2, end,
                                       inChild)

\* The fill loop of Crossover: i counts the points of parent2 visited.
RECURSIVE OXFill(_, _, _, _, _, _)
OXFill(childRoute, childIndex, i, parent2, end, inChild) ==
    IF i >= Len(parent2) THEN childRoute
    ELSE LET parent2Index == (end + 1 + i) % Len(parent2)
             city == At(parent2, parent2Index)
         IN  IF city.Name \notin inChild
             THEN OXFill(Put(childRoute, childIndex, city),
                         (childIndex + 1) % Len(childRoute),
                         i + 1, parent2, end, inChild)
             ELSE OXFill(childRoute, childIndex, i + 1, parent2, end, inChild)

\* make([]City, n): a route of n zero values.
MakeRoute(n) == [k \in 1 .. n |-> ZeroCity]

\* copy(dst, src): the first min(len(dst), len(src)) points of src, written
\* over those of dst.
CopyRoute(dst, src) ==
    [k \in 1 .. Len(dst) |-> IF k <= Len(src) THEN src[k] ELSE dst[k]]

\* A mutant of OXApplies that tests the length of the first parent only.
OXAppliesAnyLength(parent1, parent2) ==
    ~(Len(parent1) < 2)

\* Whether Crossover takes the Order Crossover path (and draws cut points).
OXApplies(parent1, parent2) ==
    ~(Len(parent1) # Len(parent2) \/ Len(parent1) < 2)

\* A mutant of InChild that leaves out the last point of the segment.
InChildOpenEnd(parent1, start, end) ==
    {At(parent1, k).Name : k \in start .. end - 1}

\* The names of the points of parent1's segment start..end.
InChild(parent1, start, end) ==
    {At(parent1, k).Name : k \in start .. end}

\* An Order Crossover that fills the child from its first position.
TSPCrossoverFillFromFirst(parent1, parent2, r1, r2) ==
    IF ~OXApplies(parent1, parent2) THEN parent1
    ELSE LET start == IF r1 > r2 THEN r2 ELSE r1
             end == IF r1 > r2 THEN r1 ELSE r2
             n == Len(parent1)
             segment == [k \in 1 .. n |->
                           IF start <= k - 1 /\ k - 1 <= end
                           THEN parent1[k] ELSE ZeroCity]
             inChild == {At(parent1, k).Name : k \in start .. end}
         IN  OXFill(segment, 0, 0, parent2, end, inChild)

\* TSPChromosome.Crossover: the child's route, where r1 and r2 are the two
\* values rand.Intn(len(parent1)) returns.
TSPCrossover(parent1, parent2, r1, r2) ==
    IF ~OXApplies(parent1, parent2)
    THEN CopyRoute(MakeRoute(Len(parent1)), parent1)
    ELSE LET start == IF r1 > r2 THEN r2 ELSE r1
             end == IF r1 > r2 THEN r1 ELSE r2
             n == Len(parent1)
             segment == [k \in 1 .. n |->
                           IF start <= k - 1 /\ k - 1 <= end
                           THEN parent1[k] ELSE ZeroCity]
             inChild == InChild(parent1, start, end)
         IN  OXFill(segment, (end + 1) % n, 0, parent2, end, inChild)

\* The positions of the two parents that one Crossover call reads, as
\* pairs of the parent's number and the index: copy reads the first parent
\* up to the shorter length; the Order Crossover reads the segment of the
\* first parent and walks the second from the position after end.
CrossoverReads(parent1, parent2, r1, r2) ==
    IF ~OXApplies(parent1, parent2)
    THEN {<<1, k>> : k \in 0 .. Len(MakeRoute(Len(parent1))) - 1}
    ELSE LET start == IF r1 > r2 THEN r2 ELSE r1
             end == IF r1 > r2 THEN r1 ELSE r2
         IN  {<<1, k>> : k \in start .. end}
             \cup {<<2, (end + 1 + i) % Len(parent2)>> : i \in 0 .. Len(parent2) - 1}

\* A mutant of TSPSwap that writes the stop at j over the stop at i and
\* leaves position j as it was.
TSPSwapOverwrite(route, i, j) ==
    [route EXCEPT ![i + 1] = At(route, j)]

\* TSPChromosome.Mutate, once it has drawn two different positions i and j.
TSPSwap(route, i, j) ==
    [route EXCEPT ![i + 1] = At(route, j), ![j + 1] = At(route, i)]

\* -------------------------------------------------- ga/ga_test.go (mock)
\* MockChromosome.Crossover: the average of the two scores.
MockCrossover(f, other) == RHalf(RAdd(f, other))
\* MockChromosome.Mutate: fitness += 0.1
MockMutate(f) == RAdd(f, Rat(1, 10))

\* ----------------------------------------------------------- candidates
\* A heap object: a *MockChromosome or a *TSPChromosome.
Mock(f) == [kind |-> "mock", fitness |-> f, Route |-> <<>>]
TSP(route) == [kind |-> "tsp", fitness |-> Zero, Route |-> route]

\* Chromosome.Fitness by dynamic dispatch.
Fitness(c) == IF c.kind = "mock" THEN c.fitness ELSE TSPFitness(c.Route)

\* Chromosome.Crossover by dynamic dispatch: the new object's value.
\* g1 and g2 are values of the process-wide source, read by routes only.
CrossoverValue(c, other, g1, g2) ==
    IF c.kind = "mock" THEN Mock(MockCrossover(c.fitness, Fitness(other)))
    ELSE TSP(TSPCrossover(c.Route, other.Route,
                          Intn(g1, Len(c.Route)), Intn(g2, Len(c.Route))))

\* How many values of the process-wide source one Crossover call reads.
CrossoverGlobalDraws(c, other) ==
    IF c.kind = "tsp" /\ OXApplies(c.Route, other.Route) THEN 2 ELSE 0

\* ---------------------------------------------- ga/ga.go: the selector
\* A mutant of EffectiveSize whose default size is 3.
EffectiveSizeDefaultThree(TournamentSize, n) ==
    LET t == IF TournamentSize <= 0 THEN 3 ELSE TournamentSize
    IN  IF t > n THEN n ELSE t

\* The tournament size Select uses.
EffectiveSize(TournamentSize, n) ==
    LET t == IF TournamentSize <= 0 THEN 2 ELSE TournamentSize
    IN  IF t > n THEN n ELSE t

\* A mutant of TournamentFrom in which a competitor of equal score wins.
RECURSIVE TournamentFromLastWins(_, _, _, _, _)
TournamentFromLastWins(h, population, d, j, best) ==
    IF j > Len(d) THEN best
    ELSE LET competitor == At(population, Intn(d[j], Len(population)))
         IN  TournamentFromLastWins(h, population, d, j + 1,
                 IF RGe(Fitness(h[competitor]), Fitness(h[best]))
                 THEN competitor ELSE best)

\* One tournament on the raw values d: the competitors' loop from j.
RECURSIVE TournamentFrom(_, _, _, _, _)
TournamentFrom(h, population, d, j, best) ==
    IF j > Len(d) THEN best
    ELSE LET competitor == At(population, Intn(d[j], Len(population)))
         IN  TournamentFrom(h, population, d, j + 1,
                 IF RGt(Fitness(h[competitor]), Fitness(h[best]))
                 THEN competitor ELSE best)

\* A mutant of Tournament that returns the position drawn first in place
\* of the candidate that won.
TournamentOfIndex(h, population, d) == Intn(d[1], Len(population))

\* One tournament on the raw values d.
Tournament(h, population, d) ==
    TournamentFrom(h, population, d, 2,
                   At(population, Intn(d[1], Len(population))))

\* How many values of rng one Select call reads.
SelectDraws(population, TournamentSize) ==
    IF Len(population) = 0 THEN 0
    ELSE 2 * EffectiveSize(TournamentSize, Len(population))

\* TournamentSelector.Select on heap h, reading the raw values d from rng.
Select(h, population, TournamentSize, d) ==
    IF Len(population) = 0 THEN <<>>
    ELSE LET t == EffectiveSize(TournamentSize, Len(population))
         IN  <<Tournament(h, population, SubSeq(d, 1, t)),
               Tournament(h, population, SubSeq(d, t + 1, 2 * t))>>

\* ---------------------------------------------- ga/ga.go: configuration
NoSelector == [set |-> FALSE, TournamentSize |-> 0]
TournamentSelector(size) == [set |-> TRUE, TournamentSize |-> size]

NoError == ""

\* A Validate without the checks of the two rates.
ValidateWithoutRates(ga) ==
    IF Len(ga.Population) = 0 THEN "population cannot be nil or empty"
    ELSE IF ga.Generations < 1 THEN "generations must be at least 1"
    ELSE IF ~ga.selector.set THEN "selector cannot be nil"
    ELSE IF \E k \in 1 .. Len(ga.Population) : ga.Population[k] = Nil
        THEN "population contains nil chromosome"
    ELSE NoError

\* A Validate that rejects the rates 0 and 1 themselves.
ValidateOpenRates(ga) ==
    IF Len(ga.Population) = 0 THEN "population cannot be nil or empty"
    ELSE IF ga.Generations < 1 THEN "generations must be at least 1"
    ELSE IF RLe(ga.MutationRate, Zero) \/ RGe(ga.MutationRate, Rat(1, 1))
        THEN "mutation rate must be between 0 and 1"
    ELSE IF RLe(ga.CrossoverRate, Zero) \/ RGe(ga.CrossoverRate, Rat(1, 1))
        THEN "crossover rate must be between 0 and 1"
    ELSE IF ~ga.selector.set THEN "selector cannot be nil"
    ELSE IF \E k \in 1 .. Len(ga.Population) : ga.Population[k] = Nil
        THEN "population contains nil chromosome"
    ELSE NoError

\* GA.Validate: the error it returns, NoError for nil.
Validate(ga) ==
    IF Len(ga.Population) = 0 THEN "population cannot be nil or empty"
    ELSE IF ga.Generations < 1 THEN "generations must be at least 1"
    ELSE IF RLt(ga.MutationRate, Zero) \/ RGt(ga.MutationRate, Rat(1, 1))
        THEN "mutation rate must be between 0 and 1"
    ELSE IF RLt(ga.CrossoverRate, Zero) \/ RGt(ga.CrossoverRate, Rat(1, 1))
        THEN "crossover rate must be between 0 and 1"
    ELSE IF ~ga.selector.set THEN "selector cannot be nil"
    ELSE IF \E k \in 1 .. Len(ga.Population) : ga.Population[k] = Nil
        THEN "population contains nil chromosome"
    ELSE NoError

\* The engines: "a" and "b" are instances of one process, "ref" is an
\* instance that runs alone in a process of its own.
Engines == {"a", "b", "ref"}
Process(e) == IF e = "ref" THEN "alone" ELSE "shared"
Processes == {"alone", "shared"}

\* rand.NewSource(time.Now().UnixNano()): a seed no other engine has.
TimeSeed(e) == CASE e = "a" -> -1 [] e = "b" -> -2 [] OTHER -> -3

\* The options of New: a function from the names of the With* options
\* given to their arguments.
Opt(options, name, default) ==
    IF name \in DOMAIN options THEN options[name] ELSE default

\* A mutant of DefaultSelector that leaves a nil selector in place.
DefaultSelectorKeepsNil(selector) == selector

\* "if ga.selector == nil { ga.selector = &TournamentSelector{TournamentSize: 2} }"
DefaultSelector(selector) ==
    IF selector.set THEN selector ELSE TournamentSelector(2)

\* New(options...) for the engine e: the defaults, then the options, then
\* the default selector.  Without WithRandomSeed the seed is time-derived:
\* a seed of the engine's own.
New(e, options) ==
    LET selector == Opt(options, "Selector", NoSelector)
    IN  [Population |-> Opt(options, "Population", <<>>),
         Generations |-> Opt(options, "Generations", 100),
         MutationRate |-> Opt(options, "MutationRate", Rat(1, 100)),
         CrossoverRate |-> Opt(options, "CrossoverRate", Rat(8, 10)),
         Elitism |-> Opt(options, "Elitism", TRUE),
         selector |-> DefaultSelector(selector),
         BestChromosome |-> Nil,
         progressCallback |-> Opt(options, "ProgressCallback", FALSE),
         rng |-> [seed |-> Opt(options, "RandomSeed", TimeSeed(e)), pos |-> 0],
         mu |-> FALSE,
         convergenceGenerations |-> Opt(options, "Convergence", <<0, Zero>>)[1],
         convergenceThreshold |-> Opt(options, "Convergence", <<0, Zero>>)[2]]

\* &GA{...}: a struct literal that sets exported fields; every other field
\* has its zero value (no selector, no rng).
Literal(fields) ==
    [Population |-> Opt(fields, "Population", <<>>),
     Generations |-> Opt(fields, "Generations", 0),
     MutationRate |-> Opt(fields, "MutationRate", Zero),
     CrossoverRate |-> Opt(fields, "CrossoverRate", Zero),
     Elitism |-> Opt(fields, "Elitism", FALSE),
     selector |-> NoSelector,
     BestChromosome |-> Nil,
     progressCallback |-> FALSE,
     rng |-> [seed |-> 0, pos |-> 0],
     mu |-> FALSE,
     convergenceGenerations |-> 0,
     convergenceThreshold |-> Zero]

\* ------------------------------------------------------------------ state
VARIABLES
    eng,      \* eng[e]: the fields of the GA struct of engine e
    run,      \* run[e]: the position and the locals of e's call of Run
    heap,     \* heap[e]: the chromosomes e can reach, by object name
    streams,  \* streams[seed]: the revealed values of a seeded rand.Rand
    global,   \* the process-wide source of math/rand, and where each process reads it
    calls,    \* calls[e]: the invocations of e's progress callback, in order
    trial     \* one call of a route operator on its own: arguments and result

vars == <<eng, run, heap, streams, global, calls, trial>>

\* The seeds WithRandomSeed is given here, and every seed of the model.
Seeds == {42, 43}
AllSeeds == Seeds \cup {TimeSeed(e) : e \in Engines}

\* Three fields of run[e] are not locals of Run but records of what
\* happened: tops is the top score (currentBestFitness) of every generation
\* examined so far, given is the population the engine was constructed
\* with, by value, and steps counts the steps of Run taken.

\* Run has returned.
Returned(e) == run[e].pc \in {"failed", "converged", "completed"}
\* The engine takes no step (any more).
Stopped(e) == Returned(e) \/ run[e].pc = "off"

\* The locals of Run before it is called.
Locals(pc, nextId) ==
    [pc |-> pc, i |-> 0, lastBestFitness |-> Zero,
     generationsWithoutImprovement |-> 0, currentBestFitness |-> Zero,
     nextGeneration |-> <<>>, nextIndex |-> 0, parents |-> <<>>,
     crossed |-> FALSE, offspring |-> Nil,
     shouldMutate |-> FALSE, mi |-> 0, mj |-> 0, redraws |-> 0,
     err |-> NoError, nextId |-> nextId, tops |-> <<>>, given |-> <<>>,
     steps |-> 0]

\* ------------------------------------------------- reading random sources
Min(S) == CHOOSE x \in S : \A y \in S : x <= y

\* Engine e reads the raw values d from its rng: they agree with what its
\* seed has revealed; the stream keeps what another engine of the seed has
\* yet to read.
ReadRng(e, d) ==
    LET seed == eng[e].rng.seed
        p == eng[e].rng.pos
        readers == {x \in Engines : ~Stopped(x) /\ x # e /\ eng[x].rng.seed = seed}
        low == Min({p + Len(d)} \cup {eng[x].rng.pos : x \in readers})
    IN  /\ Agrees(streams[seed], p, d)
        /\ streams' = [streams EXCEPT ![seed] = Forget(Reveal(@, p, d), low)]

\* Engine e reads the raw values g from the process-wide source.
ReadGlobal(e, g) ==
    LET P == Process(e)
        p == global.pos[P]
        pos == [global.pos EXCEPT ![P] = p + Len(g)]
        live == {Q \in Processes : \E x \in Engines : Process(x) = Q /\ ~Stopped(x)}
        low == Min({pos[Q] : Q \in live})
    IN  /\ Agrees(global.st, p, g)
        /\ global' = [st |-> Forget(Reveal(global.st, p, g), low), pos |-> pos]

GlobalRaw == 0 .. (MaxCities - 1)

\* ------------------------------------------------------- ga/ga.go: Run
\* The locals of engine e become fields, and one more step is counted.
Set(e, fields) == [run EXCEPT ![e] = [fields EXCEPT !.steps = run[e].steps + 1]]

\* A mutant of Baseline that starts from the best score of the population
\* given to Run.
BaselineTopScore(e) ==
    LET scores == {Fitness(heap[e][eng[e].Population[k]]) :
                      k \in 1 .. Len(eng[e].Population)}
    IN  CHOOSE f \in scores : \A x \in scores : RGe(f, x)

\* var lastBestFitness float64
Baseline(e) == Zero

\* Run is called: Validate, and either the error return or the first
\* iteration of the generation loop (Generations >= 1 once validated).
RunEnter(e) ==
    /\ run[e].pc = "idle"
    /\ LET err == Validate(eng[e])
       IN  run' = Set(e, IF err # NoError
                         THEN [run[e] EXCEPT !.pc = "failed", !.err = err]
                         ELSE [run[e] EXCEPT !.pc = "sort", !.i = 0,
                                   !.lastBestFitness = Baseline(e),
                                   !.generationsWithoutImprovement = 0])
    /\ UNCHANGED <<eng, heap, streams, global, calls, trial>>

\* The orders of population that are sorted by the less function of Run:
\* sort.Slice is not stable, so candidates of equal fitness may end in any
\* order.
Bijections(n) == {f \in [1 .. n -> 1 .. n] : \A x, y \in 1 .. n : f[x] = f[y] => x = y}

\* A mutant of SortOutcomes that sorts by increasing score.
SortOutcomesAscending(h, population) ==
    LET n == Len(population)
    IN  {q \in {[k \in 1 .. n |-> population[f[k]]] : f \in Bijections(n)} :
            \A k \in 1 .. n - 1 : RLe(Fitness(h[q[k]]), Fitness(h[q[k + 1]]))}

\* sort.Slice with Run's less function: any of the orders above.
SortOutcomes(h, population) ==
    LET n == Len(population)
    IN  {q \in {[k \in 1 .. n |-> population[f[k]]] : f \in Bijections(n)} :
            \A k \in 1 .. n - 1 : RGe(Fitness(h[q[k]]), Fitness(h[q[k + 1]]))}

\* sort.Slice(ga.Population, ...)
SortPopulation(e) ==
    /\ run[e].pc = "sort"
    /\ \E q \in SortOutcomes(heap[e], eng[e].Population) :
           eng' = [eng EXCEPT ![e].Population = q]
    /\ run' = Set(e, [run[e] EXCEPT !.pc = "best"])
    /\ UNCHANGED <<heap, streams, global, calls, trial>>

\* A mutant of Improves that compares the first top score with 0.
ImprovesOverZero(h, best, currentBestFitness) ==
    IF best = Nil THEN RGt(currentBestFitness, Zero)
    ELSE RGt(currentBestFitness, Fitness(h[best]))

\* A mutant of Improves that replaces the best on an equal score too.
ImprovesOrEqual(h, best, currentBestFitness) ==
    best = Nil \/ RGe(currentBestFitness, Fitness(h[best]))

\* Whether Run replaces BestChromosome by the top of the sorted population.
Improves(h, best, currentBestFitness) ==
    best = Nil \/ RGt(currentBestFitness, Fitness(h[best]))

\* A mutant of UpdateBest that records the top score and leaves the
\* tracker as it was.
UpdateBestSkipped(e) ==
    /\ run[e].pc = "best"
    /\ LET currentBestFitness == Fitness(heap[e][At(eng[e].Population, 0)])
       IN  run' = Set(e, [run[e] EXCEPT !.pc = "converge",
                             !.currentBestFitness = currentBestFitness,
                             !.tops = Append(@, currentBestFitness)])
    /\ UNCHANGED <<eng, heap, streams, global, calls, trial>>

\* "Update the best chromosome."
UpdateBest(e) ==
    /\ run[e].pc = "best"
    /\ LET currentBestFitness == Fitness(heap[e][At(eng[e].Population, 0)])
       IN  /\ run' = Set(e, [run[e] EXCEPT !.pc = "converge",
                                 !.currentBestFitness = currentBestFitness,
                                 !.tops = Append(@, currentBestFitness)])
           /\ eng' = IF Improves(heap[e], eng[e].BestChromosome, currentBestFitness)
                     THEN [eng EXCEPT ![e].BestChromosome = At(eng[e].Population, 0)]
                     ELSE eng
    /\ UNCHANGED <<heap, streams, global, calls, trial>>

\* A callback that is given the number of the next generation.
InvokeOffByOne(e) ==
    IF eng[e].progressCallback
    THEN [calls EXCEPT ![e] = Append(@, [generation |-> run[e].i + 1,
                                         best |-> eng[e].BestChromosome])]
    ELSE calls

\* A mutant of Invoke that invokes the callback twice.
InvokeTwice(e) ==
    IF eng[e].progressCallback
    THEN [calls EXCEPT ![e] = @ \o << [generation |-> run[e].i,
                                       best |-> eng[e].BestChromosome],
                                      [generation |-> run[e].i,
                                       best |-> eng[e].BestChromosome] >>]
    ELSE calls

\* One invocation of the progress callback, if one is set.
Invoke(e) ==
    IF eng[e].progressCallback
    THEN [calls EXCEPT ![e] = Append(@, [generation |-> run[e].i,
                                         best |-> eng[e].BestChromosome])]
    ELSE calls

\* A window that is reached one generation late.
ReachedWindowLate(count, window) == count > window

\* generationsWithoutImprovement >= ga.convergenceGenerations
ReachedWindow(count, window) == count >= window

\* A mutant of Improved that lets a gain equal to the threshold count.
ImprovedOrEqual(improvement, convergenceThreshold) ==
    RGe(improvement, convergenceThreshold)

\* improvement > ga.convergenceThreshold
Improved(improvement, convergenceThreshold) ==
    RGt(improvement, convergenceThreshold)

\* A mutant of Recorded that records the top score only in a generation
\* that improved.
RecordedOnImprovement(improved, lastBestFitness, currentBestFitness) ==
    IF improved THEN currentBestFitness ELSE lastBestFitness

\* lastBestFitness = currentBestFitness, at the end of the convergence
\* check of a generation that goes on, improved or not.
Recorded(improved, lastBestFitness, currentBestFitness) == currentBestFitness

\* "Check for convergence": the counter, the early return with its last
\* callback, and the new lastBestFitness.
CheckConvergence(e) ==
    /\ run[e].pc = "converge"
    /\ LET improvement == RSub(run[e].currentBestFitness, run[e].lastBestFitness)
           count == run[e].generationsWithoutImprovement + 1
       IN  IF eng[e].convergenceGenerations > 0
           THEN IF Improved(improvement, eng[e].convergenceThreshold)
                THEN /\ run' = Set(e, [run[e] EXCEPT !.pc = "callback",
                                          !.generationsWithoutImprovement = 0,
                                          !.lastBestFitness =
                                              Recorded(TRUE, @, run[e].currentBestFitness)])
                     /\ calls' = calls
                ELSE IF ReachedWindow(count, eng[e].convergenceGenerations)
                THEN /\ run' = Set(e, [run[e] EXCEPT !.pc = "converged",
                                          !.generationsWithoutImprovement = count])
                     /\ calls' = Invoke(e)
                ELSE /\ run' = Set(e, [run[e] EXCEPT !.pc = "callback",
                                          !.generationsWithoutImprovement = count,
                                          !.lastBestFitness =
                                              Recorded(FALSE, @, run[e].currentBestFitness)])
                     /\ calls' = calls
           ELSE /\ run' = Set(e, [run[e] EXCEPT !.pc = "callback"])
                /\ calls' = calls
    /\ UNCHANGED <<eng, heap, streams, global, trial>>

\* "Call progress callback if provided"
ProgressCallback(e) ==
    /\ run[e].pc = "callback"
    /\ calls' = Invoke(e)
    /\ run' = Set(e, [run[e] EXCEPT !.pc = "next"])
    /\ UNCHANGED <<eng, heap, streams, global, trial>>

\* An elite that is the top of the current generation.
EliteFromPopulation(e) == At(eng[e].Population, 0)

\* nextGeneration[0] = ga.BestChromosome
Elite(e) == eng[e].BestChromosome

\* A next generation with one slot less than the population.
NewGenerationShorter(e) == [k \in 1 .. Len(eng[e].Population) - 1 |-> Nil]

\* make([]Chromosome, len(ga.Population))
NewGeneration(e) == [k \in 1 .. Len(eng[e].Population) |-> Nil]

\* A mutant of StartNextGeneration that seats no elite.
StartNextGenerationNoElite(e) ==
    /\ run[e].pc = "next"
    /\ run' = Set(e, [run[e] EXCEPT !.pc = "fill", !.nextIndex = 0,
                          !.nextGeneration = NewGeneration(e)])
    /\ UNCHANGED <<eng, heap, streams, global, calls, trial>>

\* "Create the next generation" and "Apply elitism if enabled".
StartNextGeneration(e) ==
    /\ run[e].pc = "next"
    /\ LET empty == NewGeneration(e)
       IN  run' = Set(e, IF eng[e].Elitism
                         THEN [run[e] EXCEPT !.pc = "fill", !.nextIndex = 1,
                                   !.nextGeneration = Put(empty, 0, Elite(e))]
                         ELSE [run[e] EXCEPT !.pc = "fill", !.nextIndex = 0,
                                   !.nextGeneration = empty])
    /\ UNCHANGED <<eng, heap, streams, global, calls, trial>>

\* ga.mu.Lock(), when the fill loop goes on.
Lock(e) ==
    /\ run[e].pc = "fill"
    /\ run[e].nextIndex < Len(eng[e].Population)
    /\ ~eng[e].mu
    /\ eng' = [eng EXCEPT ![e].mu = TRUE]
    /\ run' = Set(e, [run[e] EXCEPT !.pc = "select"])
    /\ UNCHANGED <<heap, streams, global, calls, trial>>

\* parents := ga.selector.Select(ga.Population, ga.rng)
SelectParents(e) ==
    /\ run[e].pc = "select"
    /\ LET size == eng[e].selector.TournamentSize
           ns == SelectDraws(eng[e].Population, size)
       IN  \E d \in [1 .. ns -> Raw] :
             /\ ReadRng(e, d)
             /\ eng' = [eng EXCEPT ![e].rng.pos = @ + ns]
             /\ run' = Set(e, [run[e] EXCEPT !.pc = "crossover",
                                  !.parents = Select(heap[e], eng[e].Population, size, d)])
    /\ UNCHANGED <<heap, global, calls, trial>>

\* A Crossover that works in place and returns its receiver.
CrossoverInPlace(e, receiver) == receiver

\* The object Crossover returns: a new one.
CrossoverResult(e, receiver) == run[e].nextId

\* A mutant of ShouldCrossover that compares with <=.
ShouldCrossoverInclusive(rate, r) == RLe(Float64(r), rate)

\* shouldCrossover := ga.rng.Float64() < ga.CrossoverRate, on the raw value
\* r of rng.
ShouldCrossover(rate, r) == RLt(Float64(r), rate)

\* The draw of shouldCrossover, and the call of Crossover on the first
\* parent with the second or with itself.
Cross(e) ==
    /\ run[e].pc = "crossover"
    /\ \E d \in [1 .. 1 -> Raw] :
         LET h == heap[e]
             parents == run[e].parents
             shouldCrossover == ShouldCrossover(eng[e].CrossoverRate, d[1])
             other == IF shouldCrossover THEN parents[2] ELSE parents[1]
             ng == CrossoverGlobalDraws(h[parents[1]], h[other])
             offspring == CrossoverResult(e, parents[1])
         IN  \E g \in [1 .. ng -> GlobalRaw] :
               /\ ReadRng(e, d)
               /\ IF ng > 0 THEN ReadGlobal(e, g) ELSE global' = global
               /\ heap' = [heap EXCEPT ![e] =
                     [x \in DOMAIN h \cup {offspring} |->
                        IF x = offspring
                        THEN CrossoverValue(h[parents[1]], h[other],
                                 IF ng > 0 THEN g[1] ELSE 0,
                                 IF ng > 0 THEN g[2] ELSE 0)
                        ELSE h[x]]]
               /\ eng' = [eng EXCEPT ![e].rng.pos = @ + 1]
               /\ run' = Set(e, [run[e] EXCEPT !.pc = "decide",
                                    !.crossed = shouldCrossover,
                                    !.offspring = offspring,
                                    !.nextId = IF offspring = @ THEN @ + 1 ELSE @])
    /\ UNCHANGED <<calls, trial>>

\* shouldMutate := ga.rng.Float64() < ga.MutationRate
DecideMutation(e) ==
    /\ run[e].pc = "decide"
    /\ \E d \in [1 .. 1 -> Raw] :
         /\ ReadRng(e, d)
         /\ eng' = [eng EXCEPT ![e].rng.pos = @ + 1]
         /\ run' = Set(e, [run[e] EXCEPT !.pc = "unlock",
                              !.shouldMutate = RLt(Float64(d[1]), eng[e].MutationRate)])
    /\ UNCHANGED <<heap, global, calls, trial>>

\* A mutant of Unlock that goes on without releasing the mutex.
UnlockSkipped(e) ==
    /\ run[e].pc = "unlock"
    /\ eng' = eng
    /\ run' = Set(e, [run[e] EXCEPT !.pc = "mutate"])
    /\ UNCHANGED <<heap, streams, global, calls, trial>>

\* ga.mu.Unlock()
Unlock(e) ==
    /\ run[e].pc = "unlock"
    /\ eng' = [eng EXCEPT ![e].mu = FALSE]
    /\ run' = Set(e, [run[e] EXCEPT !.pc = "mutate"])
    /\ UNCHANGED <<heap, streams, global, calls, trial>>

\* nextGeneration[nextIndex] = offspring; nextIndex++
Seat(e, fields) ==
    [fields EXCEPT !.pc = "fill", !.parents = <<>>, !.crossed = FALSE,
                   !.shouldMutate = FALSE,
                   !.nextGeneration = Put(@, run[e].nextIndex, run[e].offspring),
                   !.nextIndex = @ + 1]

\* A mutant of MutateReceiver that mutates the first parent.
MutateReceiverFirstParent(e) == run[e].parents[1]

\* The receiver of the Mutate call: offspring.
MutateReceiver(e) == run[e].offspring

\* "if shouldMutate { offspring.Mutate() }", up to Mutate's first two
\* draws, and the seating of the offspring when Mutate is over.
MutateOffspring(e) ==
    /\ run[e].pc = "mutate"
    /\ LET c == heap[e][MutateReceiver(e)]
       IN  IF ~run[e].shouldMutate \/ (c.kind = "tsp" /\ Len(c.Route) < 2)
           THEN /\ run' = Set(e, Seat(e, run[e]))
                /\ UNCHANGED <<heap, global>>
           ELSE IF c.kind = "mock"
           THEN /\ heap' = [heap EXCEPT ![e][MutateReceiver(e)].fitness = MockMutate(@)]
                /\ run' = Set(e, Seat(e, run[e]))
                /\ UNCHANGED global
           ELSE \E g \in [1 .. 2 -> GlobalRaw] :
                  LET i == Intn(g[1], Len(c.Route))
                      j == Intn(g[2], Len(c.Route))
                  IN  /\ ReadGlobal(e, g)
                      /\ IF i = j
                         THEN /\ run' = Set(e, [run[e] EXCEPT !.pc = "redraw",
                                                   !.mi = i, !.mj = j, !.redraws = 0])
                              /\ heap' = heap
                         ELSE /\ run' = Set(e, Seat(e, run[e]))
                              /\ heap' = [heap EXCEPT ![e][MutateReceiver(e)].Route =
                                             TSPSwap(@, i, j)]
    /\ UNCHANGED <<eng, streams, calls, trial>>

\* One more turn of Mutate's "for i == j" loop.
Redraw(e) ==
    /\ run[e].pc = "redraw"
    /\ run[e].redraws < MaxRedraw
    /\ LET c == heap[e][MutateReceiver(e)]
       IN  \E g \in [1 .. 1 -> GlobalRaw] :
             LET j == Intn(g[1], Len(c.Route))
             IN  /\ ReadGlobal(e, g)
                 /\ IF run[e].mi = j
                    THEN /\ run' = Set(e, [run[e] EXCEPT !.redraws = @ + 1])
                         /\ heap' = heap
                    ELSE /\ run' = Set(e, Seat(e, [run[e] EXCEPT !.mi = 0, !.mj = 0,
                                                      !.redraws = 0]))
                         /\ heap' = [heap EXCEPT ![e][MutateReceiver(e)].Route =
                                        TSPSwap(@, run[e].mi, j)]
    /\ UNCHANGED <<eng, streams, calls, trial>>

\* A mutant of LoopContinues that runs one generation more.
LoopContinuesInclusive(i, Generations) == i <= Generations

\* The test of the generation loop: i < ga.Generations.
LoopContinues(i, Generations) == i < Generations

\* A mutant of ReplacePopulation that, when the budget is exhausted, scores
\* the generation just built against the tracker.
ReplacePopulationScored(e) ==
    /\ run[e].pc = "fill"
    /\ run[e].nextIndex >= Len(eng[e].Population)
    /\ LET built == {run[e].nextGeneration[k] : k \in 1 .. Len(run[e].nextGeneration)}
           top == CHOOSE x \in built :
                     \A y \in built : RGe(Fitness(heap[e][x]), Fitness(heap[e][y]))
           last == ~LoopContinues(run[e].i + 1, eng[e].Generations)
           best == IF last /\ Improves(heap[e], eng[e].BestChromosome,
                                       Fitness(heap[e][top]))
                   THEN top ELSE eng[e].BestChromosome
       IN  /\ eng' = [eng EXCEPT ![e].Population = run[e].nextGeneration,
                                 ![e].BestChromosome = best]
           /\ heap' = [heap EXCEPT ![e] = [x \in built \cup {best} |-> heap[e][x]]]
    /\ run' = Set(e, [run[e] EXCEPT
                         !.pc = IF LoopContinues(run[e].i + 1, eng[e].Generations)
                                THEN "sort" ELSE "completed",
                         !.i = @ + 1, !.nextGeneration = <<>>, !.nextIndex = 0,
                         !.parents = <<>>, !.crossed = FALSE,
                         !.offspring = Nil, !.shouldMutate = FALSE])
    /\ UNCHANGED <<streams, global, calls, trial>>

\* ga.Population = nextGeneration, i++, and the loop test; the objects no
\* longer reachable leave the heap.
ReplacePopulation(e) ==
    /\ run[e].pc = "fill"
    /\ run[e].nextIndex >= Len(eng[e].Population)
    /\ eng' = [eng EXCEPT ![e].Population = run[e].nextGeneration]
    /\ run' = Set(e, [run[e] EXCEPT
                         !.pc = IF LoopContinues(run[e].i + 1, eng[e].Generations)
                                THEN "sort" ELSE "completed",
                         !.i = @ + 1, !.nextGeneration = <<>>, !.nextIndex = 0,
                         !.parents = <<>>, !.crossed = FALSE,
                         !.offspring = Nil, !.shouldMutate = FALSE])
    /\ heap' = [heap EXCEPT ![e] =
                  [x \in {run[e].nextGeneration[k] : k \in 1 .. Len(run[e].nextGeneration)}
                         \cup {eng[e].BestChromosome} |-> heap[e][x]]]
    /\ UNCHANGED <<streams, global, calls, trial>>

\* GA.Best
Best(e) == eng[e].BestChromosome

\* One step of engine e's Run.
Step(e) ==
    \/ RunEnter(e)
    \/ SortPopulation(e)
    \/ UpdateBest(e)
    \/ CheckConvergence(e)
    \/ ProgressCallback(e)
    \/ StartNextGeneration(e)
    \/ Lock(e)
    \/ SelectParents(e)
    \/ Cross(e)
    \/ DecideMutation(e)
    \/ Unlock(e)
    \/ MutateOffspring(e)
    \/ Redraw(e)
    \/ ReplacePopulation(e)

\* ------------------------------------------------- the engine on its own
\* The points of the routes explored: four points of one line.
Cities == <<City("A", 0, 0), City("B", 1, 0), City("C", 2, 0), City("D", 3, 0)>>

\* The initial populations explored, as the values of their objects: mock
\* candidates by score (unsorted, tied, negative), and routes.
MockPopulations == {<<1>>, <<1, 2>>, <<2, 2>>, <<-5, -8>>}
LongRoute == <<Cities[1], Cities[3], Cities[2], Cities[4]>>
ShortRoute == <<Cities[1], Cities[2], Cities[3], Cities[4]>>
Mocks(scores) == [k \in 1 .. Len(scores) |-> Mock(Rat(scores[k], 1))]
RoutePopulation == <<TSP(LongRoute), TSP(ShortRoute)>>

\* The population of the objects 1..n, and the one with nil for the last.
Whole(n) == [k \in 1 .. n |-> k]
WithNil(n) == [k \in 1 .. n |-> IF k = n THEN Nil ELSE k]

\* The arguments given to WithGenerations and WithConvergence.
Budgets == 1 .. MaxGen
Windows == {<<0, Zero>>, <<1, Zero>>, <<2, Rat(1, 100)>>}

Half == Rat(1, 2)
One == Rat(1, 1)

\* A scenario: the objects of the caller, the population over them and the
\* options given to New.
Scenario(objects, population, options) ==
    [objects |-> objects, population |-> population, options |-> options]

Scenarios ==
    \* elitism, every budget and convergence window, both rates at 1/2
    {Scenario(Mocks(p), Whole(Len(p)),
              [Generations |-> b, MutationRate |-> Half, CrossoverRate |-> Half,
               Elitism |-> TRUE, Convergence |-> w, ProgressCallback |-> TRUE,
               RandomSeed |-> 42]) :
        p \in MockPopulations, b \in Budgets, w \in Windows}
    \cup
    \* no elitism
    {Scenario(Mocks(<<1, 2>>), Whole(2),
              [Generations |-> 2, MutationRate |-> Half, CrossoverRate |-> Half,
               Elitism |-> FALSE, ProgressCallback |-> TRUE, RandomSeed |-> 42])}
    \cup
    \* three candidates, with and without elitism
    {Scenario(Mocks(<<3, 1, 2>>), Whole(3),
              [Generations |-> 2, MutationRate |-> Zero, CrossoverRate |-> Half,
               Elitism |-> el, Selector |-> TournamentSelector(1),
               RandomSeed |-> 42]) : el \in BOOLEAN}
    \cup
    \* no crossover, every mutation rate
    {Scenario(Mocks(<<1, 2>>), Whole(2),
              [Generations |-> 2, MutationRate |-> m, CrossoverRate |-> Zero,
               RandomSeed |-> 42]) : m \in {Zero, Half, One}}
    \cup
    \* routes: crossover only, and mutation only
    {Scenario(RoutePopulation, Whole(2),
              [Generations |-> 2, MutationRate |-> r[1], CrossoverRate |-> r[2],
               ProgressCallback |-> TRUE, RandomSeed |-> 42]) :
        r \in {<<Zero, One>>, <<One, Zero>>}}
    \cup
    \* the defaults of New, with a tournament size given or not
    {Scenario(Mocks(<<1, 2>>), Whole(2), o) :
        o \in {[Generations |-> 1]} \cup
              {[Generations |-> 2, Selector |-> TournamentSelector(t)] : t \in {-1, 1, 3}}}
    \cup
    \* configurations Validate rejects
    {Scenario(Mocks(<<1, 2>>), Whole(2), o) :
        o \in {[Generations |-> 0], [MutationRate |-> Rat(-1, 10)],
               [MutationRate |-> Rat(15, 10)], [CrossoverRate |-> Rat(-1, 10)],
               [CrossoverRate |-> Rat(15, 10)]}}
    \cup
    {Scenario(Mocks(<<2, 1>>), WithNil(2), [ProgressCallback |-> TRUE]),
     Scenario(<<>>, <<>>, [ProgressCallback |-> TRUE])}

Off == [Population |-> <<>>, Generations |-> 0, MutationRate |-> Zero,
        CrossoverRate |-> Zero, Elitism |-> FALSE, selector |-> NoSelector,
        BestChromosome |-> Nil, progressCallback |-> FALSE,
        rng |-> [seed |-> 0, pos |-> 0], mu |-> FALSE,
        convergenceGenerations |-> 0, convergenceThreshold |-> Zero]

\* No route operator is called on its own.
NoTrial == [op |-> "none", parent1 |-> <<>>, parent2 |-> <<>>,
            r1 |-> 0, r2 |-> 0, child |-> <<>>, draws |-> 0, reads |-> {}]

EmptyStream == [base |-> 0, vals |-> <<>>]

NoStreams ==
    /\ streams = [s \in AllSeeds \cup {0} |-> EmptyStream]
    /\ global = [st |-> EmptyStream, pos |-> [P \in Processes |-> 0]]

\* Engine e is constructed by New for scenario s.
Construct(e, s) ==
    New(e, [x \in DOMAIN s.options \cup {"Population"} |->
              IF x = "Population" THEN s.population ELSE s.options[x]])

\* The locals of an engine constructed for scenario s, before Run.
Idle(s) ==
    [Locals("idle", Len(s.objects) + 1) EXCEPT !.given = <<s.objects, s.population>>]

\* Engine "a" is constructed by New over a population of its own; the
\* other engines do not exist.
Init ==
    /\ \E s \in Scenarios :
          /\ heap = [e \in Engines |-> IF e = "a" THEN s.objects ELSE <<>>]
          /\ eng = [e \in Engines |-> IF e = "a" THEN Construct(e, s) ELSE Off]
          /\ run = [e \in Engines |->
                      IF e = "a" THEN Idle(s) ELSE Locals("off", 1)]
    /\ calls = [e \in Engines |-> <<>>]
    /\ NoStreams
    /\ trial = NoTrial

Next == Step("a")

Spec == Init /\ [][Next]_vars

\* The scenarios whose Run is followed to its return: two mock candidates
\* under every budget, and under the largest with a convergence window;
\* routes that are always mutated; and configurations Validate rejects.
FairScenarios ==
    {Scenario(Mocks(<<1, 2>>), Whole(2),
              [Generations |-> b, MutationRate |-> Zero, CrossoverRate |-> Half,
               ProgressCallback |-> TRUE, RandomSeed |-> 42]) : b \in Budgets}
    \cup
    {Scenario(Mocks(<<1, 2>>), Whole(2),
              [Generations |-> MaxGen, MutationRate |-> Half, CrossoverRate |-> Zero,
               Convergence |-> <<2, Rat(1, 100)>>, RandomSeed |-> 42])}
    \cup
    {Scenario(RoutePopulation, Whole(2),
              [Generations |-> 1, MutationRate |-> One, CrossoverRate |-> Zero,
               RandomSeed |-> 42]),
     Scenario(Mocks(<<1, 2>>), Whole(2), [Generations |-> 0]),
     Scenario(<<>>, <<>>, [ProgressCallback |-> TRUE])}

InitFair ==
    /\ \E s \in FairScenarios :
          /\ heap = [e \in Engines |-> IF e = "a" THEN s.objects ELSE <<>>]
          /\ eng = [e \in Engines |-> IF e = "a" THEN Construct(e, s) ELSE Off]
          /\ run = [e \in Engines |->
                      IF e = "a" THEN Idle(s) ELSE Locals("off", 1)]
    /\ calls = [e \in Engines |-> <<>>]
    /\ NoStreams
    /\ trial = NoTrial

\* Run is straight-line code of one goroutine: a step it can take, it takes.
SpecFair == InitFair /\ [][Next]_vars /\ WF_vars(Next)

\* ----------------------------------------------- the convergence tracker
\* The windows and thresholds given to WithConvergence: 0 (any gain
\* counts), 1/2 (above a mutation's gain of 1/10) and 2 (the top score of
\* the candidates 1 and 2 itself).
ConvergenceWindows ==
    {<<W, eps>> : W \in 1 .. 2, eps \in {Zero, Half, Rat(2, 1)}}

\* The scenarios that follow the tracker: two mock candidates whose clones
\* are mutated or not, under every window; candidates of negative scores;
\* and routes.
ConvergeScenarios ==
    {Scenario(Mocks(<<1, 2>>), Whole(2),
              [Generations |-> MaxGen, MutationRate |-> Half, CrossoverRate |-> Zero,
               Convergence |-> w, ProgressCallback |-> TRUE, RandomSeed |-> 42]) :
        w \in ConvergenceWindows}
    \cup
    {Scenario(Mocks(<<-5, -8>>), Whole(2),
              [Generations |-> 2, MutationRate |-> Zero, CrossoverRate |-> Half,
               Convergence |-> <<W, Zero>>, ProgressCallback |-> TRUE,
               RandomSeed |-> 42]) : W \in 1 .. 2}
    \cup
    {Scenario(RoutePopulation, Whole(2),
              [Generations |-> 2, MutationRate |-> One, CrossoverRate |-> Zero,
               Convergence |-> <<1, Zero>>, ProgressCallback |-> TRUE,
               RandomSeed |-> 42])}

InitConverge ==
    /\ \E s \in ConvergeScenarios :
          /\ heap = [e \in Engines |-> IF e = "a" THEN s.objects ELSE <<>>]
          /\ eng = [e \in Engines |-> IF e = "a" THEN Construct(e, s) ELSE Off]
          /\ run = [e \in Engines |->
                      IF e = "a" THEN Idle(s) ELSE Locals("off", 1)]
    /\ calls = [e \in Engines |-> <<>>]
    /\ NoStreams
    /\ trial = NoTrial

SpecConverge == InitConverge /\ [][Next]_vars

\* ---------------------------------------------------- Validate on its own
\* The size above which TestValidatePopulationSizeLimit expects a failure,
\* and the size of the population it builds.
PopulationCeiling == 100000
Oversized == 150000

\* The rates and the populations given to Validate: below, at and above
\* the ends of [0, 1]; empty, whole, and with a nil entry in either place.
Rates == {Rat(-1, 10), Zero, Half, One, Rat(11, 10)}
SmallPopulations == {<<>>, <<1>>, <<1, 2>>, <<Nil>>, <<1, Nil>>, <<Nil, 2>>}
OversizedPopulation == SubSeq([k \in 1 .. Oversized |-> 1], 1, Oversized)

\* The engines Validate is called on: built by New (which always sets a
\* selector) or as a struct literal (which has none), and one with an
\* oversized population of non-nil entries.
ValidateEngines ==
    {IF byNew
     THEN New("a", [Population |-> p, Generations |-> g,
                    MutationRate |-> m, CrossoverRate |-> c])
     ELSE Literal([Population |-> p, Generations |-> g,
                   MutationRate |-> m, CrossoverRate |-> c]) :
        p \in SmallPopulations, g \in -1 .. 2, m \in Rates, c \in Rates,
        byNew \in BOOLEAN}
    \cup
    {New("a", [Population |-> OversizedPopulation, Generations |-> 10])}

\* What is kept of one call of Validate: the engine it was called on, with
\* the size of the population and whether an entry is nil in place of the
\* population itself, and the error returned.
Validated(ga, err) ==
    [op |-> "validated", size |-> Len(ga.Population),
     hasNil |-> \E k \in 1 .. Len(ga.Population) : ga.Population[k] = Nil,
     Generations |-> ga.Generations, MutationRate |-> ga.MutationRate,
     CrossoverRate |-> ga.CrossoverRate, hasSelector |-> ga.selector.set,
     err |-> err]

InitValidate ==
    /\ trial = NoTrial
    /\ eng = [e \in Engines |-> Off]
    /\ run = [e \in Engines |-> Locals("off", 1)]
    /\ heap = [e \in Engines |-> <<>>]
    /\ calls = [e \in Engines |-> <<>>]
    /\ NoStreams

\* ga.Validate() is called on an engine that is not running.
CallValidate ==
    /\ trial.op = "none"
    /\ \E ga \in ValidateEngines : trial' = Validated(ga, Validate(ga))
    /\ UNCHANGED <<eng, run, heap, streams, global, calls>>

NextValidate == CallValidate

SpecValidate == InitValidate /\ [][NextValidate]_vars

\* ------------------------------------------------- New, and then Validate
\* The options given to New: a population, a budget, and WithSelector left
\* out, given nil, or given a tournament selector of some size.
SelectorOptions == {NoSelector} \cup {TournamentSelector(t) : t \in -1 .. 3}
NewOptions ==
    {[Population |-> p, Generations |-> g] :
        p \in SmallPopulations, g \in -1 .. 2}
    \cup
    {[Population |-> p, Generations |-> g, Selector |-> sel] :
        p \in SmallPopulations, g \in -1 .. 2, sel \in SelectorOptions}

\* A call of New and of Validate on its result: the options, and the error.
Constructing(op, options, err) == [op |-> op, options |-> options, err |-> err]

InitNew ==
    /\ trial = Constructing("none", <<>>, NoError)
    /\ eng = [e \in Engines |-> Off]
    /\ run = [e \in Engines |-> Locals("off", 1)]
    /\ heap = [e \in Engines |-> <<>>]
    /\ calls = [e \in Engines |-> <<>>]
    /\ NoStreams

\* ga := New(options...)
CallNew ==
    /\ trial.op = "none"
    /\ \E o \in NewOptions :
          /\ eng' = [eng EXCEPT !["a"] = New("a", o)]
          /\ trial' = Constructing("built", o, NoError)
    /\ UNCHANGED <<run, heap, streams, global, calls>>

\* ga.Validate() on the engine New has returned.
ValidateBuilt ==
    /\ trial.op = "built"
    /\ trial' = Constructing("validated", trial.options, Validate(eng["a"]))
    /\ UNCHANGED <<eng, run, heap, streams, global, calls>>

NextNew == CallNew \/ ValidateBuilt

SpecNew == InitNew /\ [][NextNew]_vars

\* ------------------------------------------- the route operators on their own
\* The names of the points, and the route of the first n of them in order.
Names == <<"A", "B", "C", "D", "E", "F">>
Line(n) == [k \in 1 .. n |-> City(Names[k], k - 1, 0)]

\* The routes that visit the first n points, each once.
Routes(n) == {[k \in 1 .. n |-> Line(n)[f[k]]] : f \in Bijections(n)}

\* The parents of a trial: every pair of routes over the same n points, and
\* the pairs of routes of differing lengths, 0 included.
TrialParents ==
    {<<p1, p2>> : p1 \in Routes(MaxCities), p2 \in Routes(MaxCities)}
    \cup UNION {{<<p1, p2>> : p1 \in Routes(n), p2 \in Routes(n)} :
                   n \in 1 .. MaxCities - 1}
    \cup {<<Line(n), Line(m)>> : n \in 0 .. MaxCities, m \in 0 .. MaxCities}

InitOX ==
    /\ \E p \in TrialParents :
          trial = [NoTrial EXCEPT !.op = "parents", !.parent1 = p[1], !.parent2 = p[2]]
    /\ eng = [e \in Engines |-> Off]
    /\ run = [e \in Engines |-> Locals("off", 1)]
    /\ heap = [e \in Engines |-> <<>>]
    /\ calls = [e \in Engines |-> <<>>]
    /\ NoStreams

\* parent1.Crossover(parent2), with the two values of rand.Intn.
OrderCrossover ==
    /\ trial.op = "parents"
    /\ \E g \in [1 .. 2 -> GlobalRaw] :
         LET n == Len(trial.parent1)
             r1 == IF OXApplies(trial.parent1, trial.parent2) THEN Intn(g[1], n) ELSE 0
             r2 == IF OXApplies(trial.parent1, trial.parent2) THEN Intn(g[2], n) ELSE 0
         IN  trial' = [trial EXCEPT !.op = "crossed", !.r1 = r1, !.r2 = r2,
                          !.child = TSPCrossover(trial.parent1, trial.parent2, r1, r2),
                          !.draws = IF OXApplies(trial.parent1, trial.parent2)
                                    THEN 2 ELSE 0,
                          !.reads = CrossoverReads(trial.parent1, trial.parent2,
                                                   r1, r2)]
    /\ UNCHANGED <<eng, run, heap, streams, global, calls>>

NextOX == OrderCrossover

SpecOX == InitOX /\ [][NextOX]_vars

\* ------------------------------------------------- TSPChromosome.Mutate alone
\* The routes of n stops over the first two points: stops may repeat.
RepeatingRoutes(n) == {[k \in 1 .. n |-> Line(2)[f[k]]] : f \in [1 .. n -> 1 .. 2]}

\* The routes handed to Mutate: every order of the MaxCities points, and
\* every route of 0 to MaxCities stops with repeated points.
MutatedRoutes ==
    Routes(MaxCities) \cup UNION {RepeatingRoutes(n) : n \in 0 .. MaxCities}

InitMutate ==
    /\ \E route \in MutatedRoutes :
          trial = [op |-> "route", original |-> route, Route |-> route,
                   mutations |-> 0, drawn |-> 0]
    /\ eng = [e \in Engines |-> Off]
    /\ run = [e \in Engines |-> Locals("off", 1)]
    /\ heap = [e \in Engines |-> <<>>]
    /\ calls = [e \in Engines |-> <<>>]
    /\ NoStreams

\* A mutant of MutateDraws without the "for i == j" loop: i and j only.
MutateDrawsOnce(n) == [1 .. 2 -> GlobalRaw]

\* The draws of one Mutate call on a route of n stops: i, j, and the draws
\* of the "for i == j" loop, which ends at the first j that differs from i.
MutateDraws(n) ==
    {g \in UNION {[1 .. m -> GlobalRaw] : m \in 2 .. 2 + MaxRedraw} :
        /\ \A k \in 2 .. Len(g) - 1 : Intn(g[k], n) = Intn(g[1], n)
        /\ Intn(g[Len(g)], n) # Intn(g[1], n)}

\* c.Mutate() on route, given the draws g of rand.Intn.
TSPMutate(route, g) ==
    IF Len(route) < 2 THEN route
    ELSE TSPSwap(route, Intn(g[1], Len(route)), Intn(g[Len(g)], Len(route)))

\* One more call of c.Mutate() on the same chromosome; drawn is the number
\* of values of rand.Intn the call has read.
MutateRoute ==
    /\ trial.op = "route"
    /\ trial.mutations < MaxMutations
    /\ IF Len(trial.Route) < 2
       THEN trial' = [trial EXCEPT !.mutations = @ + 1, !.drawn = 0,
                         !.Route = TSPMutate(trial.Route, <<>>)]
       ELSE \E g \in MutateDraws(Len(trial.Route)) :
              trial' = [trial EXCEPT !.mutations = @ + 1, !.drawn = Len(g),
                           !.Route = TSPMutate(trial.Route, g)]
    /\ UNCHANGED <<eng, run, heap, streams, global, calls>>

NextMutate == MutateRoute

SpecMutate == InitMutate /\ [][NextMutate]_vars

\* --------------------------------- Crossover, then Mutate of the child
\* Routes as slices: trial.arrays holds the backing arrays, and the Route of
\* a chromosome is the number of its array.  The parents are two
\* chromosomes over arrays of their own, of the same points or of differing
\* lengths, or one chromosome crossed with itself.
StoredParents ==
    {<<(<<p1, p2>>), 1, 2>> : p1 \in Routes(MaxCities - 1), p2 \in Routes(MaxCities - 1)}
    \cup {<<(<<Line(n), Line(m)>>), 1, 2>> : n \in 0 .. MaxCities, m \in 0 .. MaxCities}
    \cup {<<(<<p>>), 1, 1>> : p \in Routes(MaxCities - 1) \cup {Line(1)}}

InitChild ==
    /\ \E p \in StoredParents :
          trial = [op |-> "parents", arrays |-> p[1], before |-> p[1],
                   parent1 |-> p[2], parent2 |-> p[3], child |-> Nil,
                   mutations |-> 0]
    /\ eng = [e \in Engines |-> Off]
    /\ run = [e \in Engines |-> Locals("off", 1)]
    /\ heap = [e \in Engines |-> <<>>]
    /\ calls = [e \in Engines |-> <<>>]
    /\ NoStreams

\* A mutant of ChildArray that hands the receiver's array to the child.
ChildArrayOfReceiver(arrays, receiver) == receiver

\* The array that make([]City, len(parent1)) allocates for the child.
ChildArray(arrays, receiver) == Len(arrays) + 1

\* parent1.Crossover(parent2): the child's route is written to its array
\* and the parents' arrays are read.
CrossoverStored ==
    /\ trial.op = "parents"
    /\ \E g \in [1 .. 2 -> GlobalRaw] :
         LET parent1 == trial.arrays[trial.parent1]
             parent2 == trial.arrays[trial.parent2]
             n == Len(parent1)
             r1 == IF OXApplies(parent1, parent2) THEN Intn(g[1], n) ELSE 0
             r2 == IF OXApplies(parent1, parent2) THEN Intn(g[2], n) ELSE 0
             childRoute == ChildArray(trial.arrays, trial.parent1)
         IN  trial' = [trial EXCEPT
                         !.op = "crossed",
                         !.child = childRoute,
                         !.arrays = [k \in DOMAIN trial.arrays \cup {childRoute} |->
                                       IF k = childRoute
                                       THEN TSPCrossover(parent1, parent2, r1, r2)
                                       ELSE trial.arrays[k]]]
    /\ UNCHANGED <<eng, run, heap, streams, global, calls>>

\* child.Mutate(): the swap is written to the child's array.
MutateChild ==
    /\ trial.op = "crossed"
    /\ trial.mutations < MaxMutations
    /\ LET Route == trial.arrays[trial.child]
       IN  IF Len(Route) < 2
           THEN trial' = [trial EXCEPT !.mutations = @ + 1,
                             !.arrays[trial.child] = TSPMutate(Route, <<>>)]
           ELSE \E g \in MutateDraws(Len(Route)) :
                  trial' = [trial EXCEPT !.mutations = @ + 1,
                               !.arrays[trial.child] = TSPMutate(Route, g)]
    /\ UNCHANGED <<eng, run, heap, streams, global, calls>>

NextChild == CrossoverStored \/ MutateChild

SpecChild == InitChild /\ [][NextChild]_vars

\* ------------------------------------------- TournamentSelector.Select alone
\* The values rng.Intn returns to a selector called on its own.
SelectRaw == 0 .. MaxPopulation - 1

\* The configured sizes: negative, zero, 1 to the largest population, and
\* one more.
TournamentSizes == -1 .. MaxPopulation + 1

\* The scores of the populations handed to Select: n candidates of
\* increasing scores, and, below the largest population, n candidates
\* whose scores repeat.
SelectScores ==
    {[k \in 1 .. n |-> k] : n \in 0 .. MaxPopulation}
    \cup {[k \in 1 .. n |-> (k + 1) \div 2] : n \in 2 .. MaxPopulation - 1}

\* Two selectors to be called on one population: of the same size, or the
\* first of size 2 or of the size of the population.
SelectorPairs(n) ==
    {<<s, s>> : s \in TournamentSizes}
    \cup {<<2, s>> : s \in TournamentSizes}
    \cup {<<n, s>> : s \in {t \in TournamentSizes : t > n}}

\* The process-wide source of math/rand, which no selector is handed.
Ambient == [pos |-> 0, vals |-> [p \in 1 .. 4 * (MaxPopulation + 1) |-> (p - 1) % MaxPopulation]]

\* Two selectors, a population of mock candidates, and two generators
\* rand.New(rand.NewSource(seed)) of one seed, one for each call.
InitSelect ==
    /\ \E scores \in SelectScores : \E pair \in SelectorPairs(Len(scores)) :
          trial = [op |-> "select",
                   h |-> [k \in 1 .. Len(scores) |-> Mock(Rat(scores[k], 1))],
                   population |-> [k \in 1 .. Len(scores) |-> k],
                   selectors |-> pair,
                   stream |-> EmptyStream,
                   pos |-> <<0, 0>>,
                   ambient |-> Ambient,
                   made |-> 0,
                   parents |-> <<<<>>, <<>>>>]
    /\ eng = [e \in Engines |-> Off]
    /\ run = [e \in Engines |-> Locals("off", 1)]
    /\ heap = [e \in Engines |-> <<>>]
    /\ calls = [e \in Engines |-> <<>>]
    /\ NoStreams

\* A mutant of SelectFrom that draws from the process-wide source.
SelectFromAmbient(h, population, TournamentSize, d, ambient) ==
    LET ns == SelectDraws(population, TournamentSize)
    IN  [parents |-> Select(h, population, TournamentSize,
                            SubSeq(ambient.vals, ambient.pos + 1, ambient.pos + ns)),
         rng |-> 0,
         ambient |-> ns]

\* s.Select(population, rng): the parents it returns, and how many values
\* it takes from rng and from the process-wide source.
SelectFrom(h, population, TournamentSize, d, ambient) ==
    [parents |-> Select(h, population, TournamentSize, d),
     rng |-> SelectDraws(population, TournamentSize),
     ambient |-> 0]

\* The next selector is called with its own generator: the values the
\* other generator of the seed has produced come again, the rest are new.
\* After the second call no generator reads the stream again.
CallSelect ==
    /\ trial.op = "select"
    /\ trial.made < 2
    /\ LET k == trial.made + 1
           size == trial.selectors[k]
           ns == SelectDraws(trial.population, size)
           known == Min({ns, Len(trial.stream.vals) - trial.pos[k]})
       IN  \E new \in [1 .. ns - known -> SelectRaw] :
             LET d == SubSeq(trial.stream.vals, trial.pos[k] + 1, trial.pos[k] + known) \o new
                 out == SelectFrom(trial.h, trial.population, size, d, trial.ambient)
                 read == SubSeq(d, 1, out.rng)
                 stream == Reveal(trial.stream, trial.pos[k], read)
             IN  /\ Agrees(trial.stream, trial.pos[k], read)
                 /\ trial' = [trial EXCEPT !.made = k,
                                  !.parents[k] = out.parents,
                                  !.pos[k] = @ + out.rng,
                                  !.stream = IF k = 2 THEN Forget(stream, Len(stream.vals))
                                             ELSE stream,
                                  !.ambient.pos = @ + out.ambient]
    /\ UNCHANGED <<eng, run, heap, streams, global, calls>>

NextSelect == CallSelect

SpecSelect == InitSelect /\ [][NextSelect]_vars

\* ------------------------------------------------ TSPChromosome.Fitness alone
\* Points whose distances from one another are 3, 4 or 5, and two points
\* of different names at one place.
Rectangle == <<City("A", 0, 0), City("B", 3, 4), City("C", 3, 0), City("D", 0, 4)>>
Coincident == <<City("A", 1, 1), City("B", 1, 1)>>

\* The routes scored: every route of 0 to MaxCities stops over the points
\* of the rectangle, and over the two coincident points.
ScoredRoutes ==
    UNION {{[k \in 1 .. n |-> Rectangle[f[k]]] : f \in [1 .. n -> 1 .. 4]}
           \cup {[k \in 1 .. n |-> Coincident[f[k]]] : f \in [1 .. n -> 1 .. 2]} :
              n \in 0 .. MaxCities}

\* math.Inf(1), as the quotient 1/0.
PosInf == <<1, 0>>

InitFitness ==
    /\ \E route \in ScoredRoutes :
          trial = [op |-> "unscored", Route |-> route, fitness |-> Zero]
    /\ eng = [e \in Engines |-> Off]
    /\ run = [e \in Engines |-> Locals("off", 1)]
    /\ heap = [e \in Engines |-> <<>>]
    /\ calls = [e \in Engines |-> <<>>]
    /\ NoStreams

\* fitness := chromosome.Fitness()
CallFitness ==
    /\ trial.op = "unscored"
    /\ trial' = [trial EXCEPT !.op = "scored", !.fitness = Fitness(TSP(trial.Route))]
    /\ UNCHANGED <<eng, run, heap, streams, global, calls>>

NextFitness == CallFitness

SpecFitness == InitFitness /\ [][NextFitness]_vars

\* ------------------------------------------------- engines side by side
\* An engine over two copies of the long route that clones a parent and
\* always mutates the clone, and whose convergence window ends Run at
\* generation 1, so that it breeds once; and a small engine that breeds one
\* route of two points once.
RouteScenario ==
    Scenario(<<TSP(LongRoute), TSP(LongRoute)>>, Whole(2),
             [Generations |-> 3, MutationRate |-> One, CrossoverRate |-> Zero,
              Selector |-> TournamentSelector(1), Convergence |-> <<2, One>>,
              RandomSeed |-> 42])
SmallScenario ==
    Scenario(<<TSP(<<Cities[1], Cities[2]>>)>>, Whole(1),
             [Generations |-> 1, MutationRate |-> Zero, CrossoverRate |-> One,
              Elitism |-> FALSE, Selector |-> TournamentSelector(1),
              RandomSeed |-> 43])

\* The engines constructed: two of the same configuration and seed in one
\* process; or one beside the small engine in one process, and one of the
\* same configuration and seed alone in another.
Casts ==
    {[e \in {"a", "b"} |-> RouteScenario],
     [e \in Engines |-> IF e = "b" THEN SmallScenario ELSE RouteScenario]}

InitPair ==
    /\ \E cast \in Casts :
          /\ heap = [e \in Engines |->
                       IF e \in DOMAIN cast THEN cast[e].objects ELSE <<>>]
          /\ eng = [e \in Engines |->
                      IF e \in DOMAIN cast THEN Construct(e, cast[e]) ELSE Off]
          /\ run = [e \in Engines |->
                      IF e \in DOMAIN cast THEN Idle(cast[e]) ELSE Locals("off", 1)]
    /\ calls = [e \in Engines |-> <<>>]
    /\ NoStreams
    /\ trial = NoTrial

\* The schedules explored.  Of the engines of one seed, one that has taken
\* more steps than another waits for it.  Engine "b", when its seed is its
\* own, enters Run at any point of the others and returns from it before
\* they go on.
InStep(e) ==
    \A x \in Engines \ {e} :
       \/ Stopped(x)
       \/ /\ eng[x].rng.seed = eng[e].rng.seed
          /\ run[x].steps >= run[e].steps
       \/ /\ eng[x].rng.seed # eng[e].rng.seed
          /\ x = "b" => run[x].pc = "idle"

\* One step of engine e that the schedules explored allow.
Turn(e) ==
    \/ InStep(e) /\ RunEnter(e)
    \/ InStep(e) /\ SortPopulation(e)
    \/ InStep(e) /\ UpdateBest(e)
    \/ InStep(e) /\ CheckConvergence(e)
    \/ InStep(e) /\ ProgressCallback(e)
    \/ InStep(e) /\ StartNextGeneration(e)
    \/ InStep(e) /\ Lock(e)
    \/ InStep(e) /\ SelectParents(e)
    \/ InStep(e) /\ Cross(e)
    \/ InStep(e) /\ DecideMutation(e)
    \/ InStep(e) /\ Unlock(e)
    \/ InStep(e) /\ MutateOffspring(e)
    \/ InStep(e) /\ Redraw(e)
    \/ InStep(e) /\ ReplacePopulation(e)

NextPair == \E e \in Engines : Turn(e)

SpecPair == InitPair /\ [][NextPair]_vars

\* ------------------------------------------------------------ properties
\* The engines that exist.
Live == {e \in Engines : run[e].pc # "off"}

\* The score of the Best-So-Far tracker of engine e.
BestFitness(e) == Fitness(heap[e][Best(e)])

\* Run replaces the population in this step.
Replaces(e) == run[e].pc = "fill" /\ run'[e].pc \in {"sort", "completed"}

\* C1: across the whole of Run the score of the Best-So-Far tracker never
\* decreases: once it is set it stays set, and in every step its score
\* after the step is >= its score before (mutation of offspring and the
\* replacement of the population included).
C1_BestNeverDecreases ==
    [][\A e \in Engines :
         Best(e) # Nil =>
            /\ eng'[e].BestChromosome # Nil
            /\ RGe(Fitness(heap'[e][eng'[e].BestChromosome]), BestFitness(e))]_vars

\* The tracker holds an offspring: it was replaced in a later generation.
C1_Witness ==
    /\ run["a"].i >= 1
    /\ Best("a") > Len(eng["a"].Population)

\* C4: with elitism, every replacement of the population puts the very
\* object the tracker holds into slot 0 of the new population, and no step
\* changes the value (hence the score) of the object the tracker holds.
C4_ElitePreserved ==
    [][\A e \in Engines :
         eng[e].Elitism =>
            /\ Replaces(e) =>
                  /\ At(eng'[e].Population, 0) = Best(e)
                  /\ eng'[e].BestChromosome = Best(e)
            /\ Best(e) # Nil =>
                  /\ Best(e) \in DOMAIN heap'[e]
                  /\ heap'[e][Best(e)] = heap[e][Best(e)]]_vars

\* With elitism, in a later generation, the offspring being seated is the
\* elite's mutated clone: its score is the elite's plus 0.1.
C4_Witness ==
    /\ eng["a"].Elitism
    /\ run["a"].i >= 1
    /\ run["a"].pc = "fill"
    /\ run["a"].nextIndex = 2
    /\ At(eng["a"].Population, 0) = Best("a")
    /\ Fitness(heap["a"][At(run["a"].nextGeneration, 1)])
          = RAdd(BestFitness("a"), Rat(1, 10))

\* A configuration Run is to reject.
Invalid(ga) ==
    \/ Len(ga.Population) = 0
    \/ \E k \in 1 .. Len(ga.Population) : ga.Population[k] = Nil
    \/ ga.Generations < 1
    \/ RLt(ga.MutationRate, Zero) \/ RGt(ga.MutationRate, One)
    \/ RLt(ga.CrossoverRate, Zero) \/ RGt(ga.CrossoverRate, One)
    \/ ~ga.selector.set

\* C5: Run on an invalid configuration returns a failure without running
\* a generation: the step that enters Run changes neither the engine (its
\* population is neither sorted nor replaced) nor any random source, and
\* afterwards Best is nil, the callback has not been invoked and nothing
\* was drawn from the engine's stream.
C5_InvalidRunsNothing ==
    /\ [](\A e \in Live :
            run[e].pc # "idle" /\ Invalid(eng[e]) =>
               /\ run[e].pc = "failed"
               /\ run[e].err # NoError
               /\ Best(e) = Nil
               /\ calls[e] = <<>>
               /\ eng[e].rng.pos = 0)
    /\ [][\A e \in Live :
            run[e].pc = "idle" /\ Invalid(eng[e]) =>
               /\ eng'[e] = eng[e]
               /\ heap'[e] = heap[e]
               /\ streams' = streams
               /\ global' = global]_vars

\* Run has failed on an empty population.
C5_Witness ==
    /\ run["a"].pc = "failed"
    /\ Len(eng["a"].Population) = 0

\* The generations whose callback is due: those examined up to the place
\* of the callback.
Examined(e) ==
    IF run[e].pc \in {"idle", "failed"} THEN 0
    ELSE IF run[e].pc \in {"sort", "best", "converge", "callback", "completed"}
    THEN run[e].i
    ELSE run[e].i + 1

\* C8: with a progress callback, a successful Run invokes it exactly once
\* for each examined generation, with the indices 0, 1, 2, ... in order and
\* with the tracker's best of that moment, never nil; a Run that completes
\* has invoked it budget times, last with budget-1.
C8_CallbackOncePerGeneration ==
    \A e \in Live :
       eng[e].progressCallback =>
          /\ Len(calls[e]) = Examined(e)
          /\ \A k \in 1 .. Len(calls[e]) :
                /\ calls[e][k].generation = k - 1
                /\ calls[e][k].best # Nil
          /\ (Len(calls[e]) > 0 /\ run[e].pc \notin {"converge", "callback"}) =>
                calls[e][Len(calls[e])].best = Best(e)
          /\ run[e].pc = "completed" =>
                /\ Len(calls[e]) = eng[e].Generations
                /\ calls[e][Len(calls[e])].generation = eng[e].Generations - 1

\* Run has completed a budget of at least 2 with the callback set.
C8_Witness ==
    /\ run["a"].pc = "completed"
    /\ eng["a"].progressCallback
    /\ eng["a"].Generations >= 2
    /\ Len(calls["a"]) = eng["a"].Generations

\* The top score never improved by more than epsilon from one examined
\* generation to the next.
NeverImproves(e) ==
    \A g \in 2 .. Len(run[e].tops) :
       ~RGt(RSub(run[e].tops[g], run[e].tops[g - 1]), eng[e].convergenceThreshold)

\* The case of C9: Run has returned, with a callback and a window W >= 1
\* smaller than the budget, and the top score never improved by more than
\* epsilon.
C9_Case(e) ==
    /\ Returned(e)
    /\ run[e].pc # "failed"
    /\ eng[e].progressCallback
    /\ eng[e].convergenceGenerations >= 1
    /\ eng[e].convergenceGenerations < eng[e].Generations
    /\ NeverImproves(e)

\* C9 as stated: in that case Run has stopped in Converged, with fewer
\* invocations of the callback than the budget.
C9_Original ==
    \A e \in Live :
       C9_Case(e) =>
          /\ run[e].pc = "converged"
          /\ Len(calls[e]) < eng[e].Generations

\* C9 as amended: in that case Run has stopped in Converged, with at most
\* W+1 invocations of the callback (exactly W when the top score of
\* generation 0 is itself <= epsilon, W+1 when it is > epsilon), so with
\* fewer than the budget whenever W+1 < budget.
C9_ConvergesWithinWindow ==
    \A e \in Live :
       C9_Case(e) =>
          /\ run[e].pc = "converged"
          /\ run[e].err = NoError
          /\ Len(calls[e]) <= eng[e].convergenceGenerations + 1
          /\ ~RGt(run[e].tops[1], eng[e].convergenceThreshold) =>
                Len(calls[e]) = eng[e].convergenceGenerations
          /\ RGt(run[e].tops[1], eng[e].convergenceThreshold) =>
                Len(calls[e]) = eng[e].convergenceGenerations + 1
          /\ eng[e].convergenceGenerations + 1 < eng[e].Generations =>
                Len(calls[e]) < eng[e].Generations

\* Run has converged on a population of negative scores, with a window of
\* 2 and a larger budget.
C9_Witness ==
    /\ C9_Case("a")
    /\ run["a"].pc = "converged"
    /\ eng["a"].convergenceGenerations = 2
    /\ RLt(run["a"].tops[1], Zero)

\* The number of positions of route that hold city.
Occurrences(route, city) == Cardinality({k \in 1 .. Len(route) : route[k] = city})

\* The two routes visit the same points, each once, under distinct names.
PermutationParents(parent1, parent2) ==
    /\ Len(parent1) = Len(parent2)
    /\ Len(parent1) >= 2
    /\ \A j, k \in 1 .. Len(parent1) :
          j # k => parent1[j].Name # parent1[k].Name
    /\ \A k \in 1 .. Len(parent1) : Occurrences(parent2, parent1[k]) = 1

\* C3: for parents that are permutations of the same n >= 2 distinctly
\* named points and every pair of cut indices in 0..n-1, the child of the
\* order crossover has length n, holds every point of the parents exactly
\* once and has no empty slot.
C3_ChildIsPermutation ==
    (trial.op = "crossed" /\ PermutationParents(trial.parent1, trial.parent2)) =>
       /\ Len(trial.child) = Len(trial.parent1)
       /\ \A k \in 1 .. Len(trial.parent1) :
             Occurrences(trial.child, trial.parent1[k]) = 1
       /\ \A k \in 1 .. Len(trial.child) : trial.child[k] # ZeroCity

\* A crossover of two different routes of the largest size whose cut
\* indices were drawn in reverse order and leave the first position to
\* be filled from the second parent.
C3_Witness ==
    /\ trial.op = "crossed"
    /\ PermutationParents(trial.parent1, trial.parent2)
    /\ Len(trial.parent1) = MaxCities
    /\ trial.parent1 # trial.parent2
    /\ trial.r1 > trial.r2
    /\ trial.r2 >= 1
    /\ trial.child # trial.parent1

\* C6: Validate reports a failure exactly when the population is empty,
\* an entry of it is nil, the budget is < 1, a rate is < 0 or > 1, or no
\* selector is set; so it reports success at the budget 1 and at the rates
\* 0 and 1.
C6_ValidateFailsExactlyWhenInvalid ==
    trial.op = "validated" =>
       (trial.err # NoError <=>
           \/ trial.size = 0
           \/ trial.hasNil
           \/ trial.Generations < 1
           \/ RLt(trial.MutationRate, Zero) \/ RGt(trial.MutationRate, One)
           \/ RLt(trial.CrossoverRate, Zero) \/ RGt(trial.CrossoverRate, One)
           \/ ~trial.hasSelector)

\* Validate has accepted an engine with the budget 1, the mutation rate 0
\* and the crossover rate 1.
C6_Witness ==
    /\ trial.op = "validated"
    /\ trial.err = NoError
    /\ trial.Generations = 1
    /\ trial.MutationRate = Zero
    /\ trial.CrossoverRate = One

\* C7: Validate rejects a population of more than 100,000 candidates.
C7_RejectsOversizedPopulation ==
    (trial.op = "validated" /\ trial.size > PopulationCeiling) =>
       trial.err # NoError

\* The two engines were constructed with the same configuration (equal
\* populations, budget, rates, elitism, selector, callback and convergence
\* settings) and the same explicit seed.
SameConfiguration(x, y) ==
    /\ run[x].given = run[y].given
    /\ eng[x].Generations = eng[y].Generations
    /\ eng[x].MutationRate = eng[y].MutationRate
    /\ eng[x].CrossoverRate = eng[y].CrossoverRate
    /\ eng[x].Elitism = eng[y].Elitism
    /\ eng[x].selector = eng[y].selector
    /\ eng[x].progressCallback = eng[y].progressCallback
    /\ eng[x].convergenceGenerations = eng[y].convergenceGenerations
    /\ eng[x].convergenceThreshold = eng[y].convergenceThreshold
    /\ eng[x].rng.seed = eng[y].rng.seed
    /\ eng[x].rng.seed \in Seeds

\* Run has returned with success.
Succeeded(e) == run[e].pc \in {"converged", "completed"}

\* C2: two engines of one process with identical configurations and the
\* same explicit seed have best candidates of the same score after Run,
\* whatever else draws random numbers in the process (route candidates
\* included).
C2_SameSeedSameBestScore ==
    \A x, y \in Live :
       (/\ Process(x) = Process(y)
        /\ SameConfiguration(x, y)
        /\ Succeeded(x)
        /\ Succeeded(y)) => BestFitness(x) = BestFitness(y)

\* C10: an engine that runs beside another instance in its process goes
\* through the same generations (the same top score in each) and ends with
\* the same best candidate as the engine of the same configuration and
\* seed that runs alone (route candidates included).
C10_NoInterference ==
    \A x \in Live :
       (/\ Process(x) = "shared"
        /\ run["ref"].pc # "off"
        /\ SameConfiguration(x, "ref")
        /\ Succeeded(x)
        /\ Succeeded("ref")) =>
          /\ run[x].tops = run["ref"].tops
          /\ heap[x][Best(x)] = heap["ref"][Best("ref")]

\* The candidates of a population, as a set.
Members(population) == {population[k] : k \in 1 .. Len(population)}

\* C11: at every point of a valid Run the population holds exactly the N
\* candidates' worth of slots it was constructed with, none of them nil;
\* each replacement installs N entries: with elitism the elite and N-1
\* offspring made in this generation, without elitism N such offspring.
C11_PopulationSizeFixed ==
    /\ [](\A e \in Live :
            ~Invalid(eng[e]) =>
               /\ Len(eng[e].Population) = Len(run[e].given[2])
               /\ \A k \in 1 .. Len(eng[e].Population) : eng[e].Population[k] # Nil)
    /\ [][\A e \in Live :
            Replaces(e) =>
               LET N == Len(eng[e].Population)
                   first == IF eng[e].Elitism THEN 2 ELSE 1
                   offspring == {eng'[e].Population[k] : k \in first .. N}
               IN  /\ Len(eng'[e].Population) = N
                   /\ Cardinality(offspring) = N - (first - 1)
                   /\ offspring \cap Members(eng[e].Population) = {}
                   /\ Nil \notin offspring
                   /\ eng[e].Elitism => eng'[e].Population[1] = Best(e)]_vars

\* A population of three has been replaced twice, without elitism.
C11_Witness ==
    /\ run["a"].i = 2
    /\ ~eng["a"].Elitism
    /\ Len(eng["a"].Population) = 3
    /\ Members(eng["a"].Population) \cap {1, 2, 3} = {}

\* The two routes hold the same points with the same multiplicities.
SameMultiset(route1, route2) ==
    /\ Len(route1) = Len(route2)
    /\ \A k \in 1 .. Len(route1) :
          Occurrences(route1, route1[k]) = Occurrences(route2, route1[k])

\* C12: after any number of Mutate calls a route still holds exactly the
\* points it held at first, each as many times as at first; a route of
\* fewer than two stops is left as it is.
C12_MutatePreservesMultiset ==
    trial.op = "route" =>
        /\ SameMultiset(trial.original, trial.Route)
        /\ Len(trial.original) < 2 => trial.Route = trial.original

\* Two calls have reordered a route in which a point repeats.
C12_Witness ==
    /\ trial.op = "route"
    /\ trial.mutations = 2
    /\ trial.Route # trial.original
    /\ \E k \in 1 .. Len(trial.Route) : Occurrences(trial.Route, trial.Route[k]) = 2

\* Both selectors of a Select trial have been called.
BothSelected == trial.op = "select" /\ trial.made = 2

\* C13: on one population and one sequence of stream values, a selector
\* of size <= 0 returns the parents, and takes the number of values, of a
\* selector of size 2; a selector of a size above the population's returns
\* the parents of a selector of the population's size.
C13_InvalidSizesNormalised ==
    BothSelected =>
        LET n == Len(trial.population)
            s == trial.selectors
        IN  /\ (s[2] <= 0 /\ s[1] = 2) =>
                   /\ trial.parents[2] = trial.parents[1]
                   /\ trial.pos[2] = trial.pos[1]
            /\ (s[2] > n /\ s[1] = n) => trial.parents[2] = trial.parents[1]

\* A selector of size 2 and one of size 0 have both run tournaments of two
\* on three candidates of different scores, and have returned the best
\* candidate and another.
C13_Witness ==
    /\ BothSelected
    /\ Len(trial.population) = 3
    /\ trial.selectors = <<2, 0>>
    /\ trial.pos = <<4, 4>>
    /\ trial.parents[2] = <<3, 2>>

\* C14: on a population that is not empty Select returns two parents, both
\* non-nil members of the population, whatever the configured size; on an
\* empty population it returns no parent and takes nothing from the stream.
C14_TwoParentsFromPopulation ==
    \A k \in 1 .. 2 :
        (trial.op = "select" /\ trial.made >= k) =>
            IF Len(trial.population) = 0
            THEN /\ trial.parents[k] = <<>>
                 /\ trial.pos[k] = 0
                 /\ trial.stream = EmptyStream
            ELSE /\ Len(trial.parents[k]) = 2
                 /\ \A j \in 1 .. 2 :
                        /\ trial.parents[k][j] # Nil
                        /\ trial.parents[k][j] \in Members(trial.population)

\* A selector larger than its population of three has returned one
\* candidate twice.
C14_Witness ==
    /\ trial.op = "select"
    /\ trial.made >= 1
    /\ Len(trial.population) = 3
    /\ trial.selectors[1] > 3
    /\ trial.pos[1] = 6
    /\ trial.parents[1][1] = trial.parents[1][2]

\* C20: two selectors of one size, called on one population with
\* generators in the same state, return the same two parents; a call takes
\* its values from the generator it is handed and none from the
\* process-wide source.
C20_SelectDeterminedByStream ==
    trial.op = "select" =>
        /\ trial.ambient = Ambient
        /\ \A k \in 1 .. trial.made :
              trial.pos[k] = SelectDraws(trial.population, trial.selectors[k])
        /\ (trial.made = 2 /\ trial.selectors[1] = trial.selectors[2]) =>
               trial.parents[1] = trial.parents[2]

\* Two selectors of size 2 have each returned the same two different
\* candidates of a population of three.
C20_Witness ==
    /\ BothSelected
    /\ trial.selectors = <<2, 2>>
    /\ Len(trial.population) = 3
    /\ trial.pos = <<4, 4>>
    /\ trial.parents[1][1] # trial.parents[1][2]

\* The stops of the route are all at one place.
AllCoincident(route) ==
    \A j, k \in 1 .. Len(route) : route[j].X = route[k].X /\ route[j].Y = route[k].Y

\* C15: a route of two or more stops that are all at one place, whose
\* closed tour has length 0, scores positive infinity.
C15_ZeroTourScoresInfinity ==
    (trial.op = "scored" /\ Len(trial.Route) >= 2 /\ AllCoincident(trial.Route))
        => trial.fitness = PosInf

\* The square of the distance between the two stops of a route of two.
SquaredGap(route) ==
    (route[1].X - route[2].X) * (route[1].X - route[2].X)
    + (route[1].Y - route[2].Y) * (route[1].Y - route[2].Y)

\* C16, as stated: a route of two stops at distance 5 from each other
\* scores exactly 0.2.
C16_Original ==
    (trial.op = "scored" /\ Len(trial.Route) = 2 /\ SquaredGap(trial.Route) = 25)
        => trial.fitness = <<1, 5>>

\* C16, amended: a route of two stops at distance 5 from each other scores
\* exactly 0.1, the reciprocal of the closed tour of length 5 + 5; a route
\* of two stops at any distance g > 0 scores 1 / (g + g).
C16_TwoStopsScoreTenth ==
    (trial.op = "scored" /\ Len(trial.Route) = 2) =>
        /\ SquaredGap(trial.Route) = 25 => trial.fitness = <<1, 10>>
        /\ SquaredGap(trial.Route) > 0 =>
               trial.fitness = Rat(1, 2 * Sqrt(SquaredGap(trial.Route)))

\* The route of the stops (0,0) and (3,4) has been scored.
C16_Witness ==
    /\ trial.op = "scored"
    /\ trial.Route = <<City("A", 0, 0), City("B", 3, 4)>>
    /\ trial.fitness # Zero

\* Engine e makes an offspring in this step.
Crosses(e) == run[e].pc = "crossover" /\ run'[e].pc = "decide"

\* C17: with crossover probability 0, whatever the mutation probability,
\* every offspring is made by combining the first selected parent with
\* itself, never with the second; and Run returns without error with a
\* best candidate that is not nil.
C17_ZeroCrossoverClonesFirstParent ==
    /\ [](\A e \in Live :
            (eng[e].CrossoverRate = Zero /\ ~Invalid(eng[e]) /\ Returned(e)) =>
               /\ run[e].err = NoError
               /\ Best(e) # Nil)
    /\ [][\A e \in Live :
            (eng[e].CrossoverRate = Zero /\ Crosses(e)) =>
               LET first == heap[e][run[e].parents[1]]
               IN  /\ ~run'[e].crossed
                   /\ run'[e].offspring \notin DOMAIN heap[e]
                   /\ \E g1, g2 \in GlobalRaw :
                         heap'[e][run'[e].offspring] = CrossoverValue(first, first, g1, g2)]_vars

\* A Run without crossover has completed, and its last population holds a
\* mutated clone of the candidate of score 1.
C17_Witness ==
    /\ run["a"].pc = "completed"
    /\ eng["a"].CrossoverRate = Zero
    /\ eng["a"].MutationRate = Half
    /\ run["a"].err = NoError
    /\ Best("a") # Nil
    /\ \E k \in 1 .. Len(eng["a"].Population) :
          Fitness(heap["a"][eng["a"].Population[k]]) = Rat(11, 10)

\* C18: Best is nil until Run has examined its first generation, and is
\* not nil once Run has returned success, be it Completed or Converged
\* (at generation 0 too), with or without elitism, and for a population of
\* one candidate; then it is a candidate that exists.
C18_BestNilThenSet ==
    \A e \in Live :
        /\ (run[e].pc \in {"idle", "failed"}
              \/ (run[e].i = 0 /\ run[e].pc \in {"sort", "best"})) => Best(e) = Nil
        /\ run[e].pc \in {"converged", "completed"} =>
              /\ run[e].err = NoError
              /\ Best(e) # Nil
              /\ Best(e) \in DOMAIN heap[e]

\* Run has converged at generation 0 on candidates of negative scores, and
\* Best is the better of them.
C18_Witness ==
    /\ run["a"].pc = "converged"
    /\ run["a"].i = 0
    /\ Best("a") # Nil
    /\ BestFitness("a") = Rat(-5, 1)

\* Mutate's "for i == j" loop has drawn MaxRedraw equal positions in a row:
\* the exploration follows it no further.
RedrawsExhausted(e) == run[e].pc = "redraw" /\ run[e].redraws >= MaxRedraw

\* C19: a Run that is called returns, in exactly one of Failed, Converged
\* and Completed (as long as the redraw loop of a route's Mutate ends
\* within the draws explored), and stays there; a valid configuration
\* never has more than Generations generations examined and returns
\* success, converged or completed; a failure is returned exactly when the
\* configuration is invalid.
C19_RunTerminates ==
    /\ \A e \in {"a"} :
          (run[e].pc = "idle") ~> (Returned(e) \/ RedrawsExhausted(e))
    /\ [](\A e \in Live :
            /\ ~Invalid(eng[e]) => Examined(e) <= eng[e].Generations
            /\ run[e].pc \in {"converged", "completed"} =>
                  run[e].err = NoError /\ ~Invalid(eng[e])
            /\ run[e].pc = "failed" => run[e].err # NoError /\ Invalid(eng[e]))
    /\ [][\A e \in Live : Returned(e) => run'[e] = run[e] /\ eng'[e] = eng[e]]_vars

\* Run has completed its whole budget of generations without converging.
C19_Witness ==
    /\ run["a"].pc = "completed"
    /\ run["a"].i = MaxGen
    /\ eng["a"].Generations = MaxGen
    /\ eng["a"].convergenceGenerations > 0

\* C21: every read of the engine's stream in Run (the selector's draws and
\* the two decisions) is made with the engine's mutex held; the mutex is
\* held nowhere else: not while the offspring is mutated, not when the
\* callback is invoked, not once Run has returned.
C21_StreamReadUnderMutex ==
    /\ [](\A e \in Live :
            eng[e].mu => run[e].pc \in {"select", "crossover", "decide", "unlock"})
    /\ [][\A e \in Live :
            /\ eng'[e].rng.pos # eng[e].rng.pos => eng[e].mu /\ eng'[e].mu
            /\ calls'[e] # calls[e] => ~eng[e].mu /\ ~eng'[e].mu
            /\ (run[e].pc \in {"mutate", "redraw"} /\ heap'[e] # heap[e]) =>
                  ~eng[e].mu /\ ~eng'[e].mu]_vars

\* An offspring is about to be mutated, after the reads of its breeding
\* and the release of the mutex.
C21_Witness ==
    /\ run["a"].pc = "mutate"
    /\ run["a"].shouldMutate
    /\ eng["a"].rng.pos >= 4
    /\ ~eng["a"].mu

\* Engine e ends the convergence check of a generation in this step.
Checks(e) == run[e].pc = "converge" /\ run'[e].pc \in {"callback", "converged"}

\* The improvement of the generation engine e is checking.
Improvement(e) == RSub(run[e].currentBestFitness, run[e].lastBestFitness)

\* C22, as stated: in a generation whose improvement is not above epsilon
\* the last recorded best score keeps its value.
C22_Original ==
    [][\A e \in Live :
         (Checks(e) /\ eng[e].convergenceGenerations > 0
            /\ ~RGt(Improvement(e), eng[e].convergenceThreshold)) =>
               run'[e].lastBestFitness = run[e].lastBestFitness]_vars

\* C22, amended: with a convergence window the last recorded best score is
\* set to the generation's top score in every generation that goes on,
\* improving or not, so that improvement is measured against the top score
\* of the generation before (0 before generation 0); it keeps its value
\* only in the generation that converges, and without a window.
C22_RecordedEveryGeneration ==
    /\ [][\A e \in Live :
            Checks(e) =>
               run'[e].lastBestFitness =
                  IF eng[e].convergenceGenerations > 0 /\ run'[e].pc = "callback"
                  THEN run[e].currentBestFitness
                  ELSE run[e].lastBestFitness]_vars
    /\ [](\A e \in Live :
            (run[e].pc = "converge" /\ eng[e].convergenceGenerations > 0) =>
               run[e].lastBestFitness =
                  IF run[e].i = 0 THEN Zero ELSE run[e].tops[run[e].i])

\* A generation has gained 1/10 on the one before, under a threshold of
\* 1/2: it was counted as a generation without improvement, and its top
\* score was recorded all the same.
C22_Witness ==
    /\ run["a"].pc = "callback"
    /\ run["a"].i = 1
    /\ eng["a"].convergenceThreshold = Half
    /\ run["a"].generationsWithoutImprovement = 1
    /\ run["a"].tops = <<Rat(2, 1), Rat(21, 10)>>
    /\ run["a"].lastBestFitness = Rat(21, 10)

\* Generation g of engine e, whose top score is on record, gained no more
\* than epsilon on the generation before it (on 0, for generation 0).
NoGain(e, g) ==
    LET before == IF g = 0 THEN Zero ELSE run[e].tops[g]
    IN  ~RGt(RSub(run[e].tops[g + 1], before), eng[e].convergenceThreshold)

\* The number of consecutive generations without gain that end with g.
RECURSIVE Trailing(_, _)
Trailing(e, g) ==
    IF g < 0 THEN 0
    ELSE IF NoGain(e, g) THEN 1 + Trailing(e, g - 1)
    ELSE 0

CheckedFirst(e) ==
    /\ Len(run[e].tops) >= 1
    /\ ~(run[e].pc = "converge" /\ run[e].i = 0)

\* C24: the last recorded best is 0 before generation 0, so the improvement
\* of generation 0 is its top score itself; when that score is <= epsilon
\* generation 0 counts as a generation without improvement, and under a
\* window of 1 Run converges at generation 0 after exactly one callback.
C24_BaselineIsZero ==
    \A e \in Live :
        eng[e].convergenceGenerations > 0 =>
           /\ (run[e].i = 0 /\ run[e].pc \in {"sort", "best", "converge"}) =>
                  run[e].lastBestFitness = Zero
           /\ (run[e].i = 0 /\ run[e].pc = "converge") =>
                  Improvement(e) = run[e].tops[1]
           /\ (run[e].i = 0 /\ run[e].pc = "callback") =>
                  run[e].generationsWithoutImprovement =
                     IF RGt(run[e].tops[1], eng[e].convergenceThreshold) THEN 0 ELSE 1
           /\ (CheckedFirst(e) /\ eng[e].convergenceGenerations = 1
                 /\ ~RGt(run[e].tops[1], eng[e].convergenceThreshold)) =>
                  /\ run[e].pc = "converged"
                  /\ run[e].i = 0
                  /\ eng[e].progressCallback =>
                        /\ Len(calls[e]) = 1
                        /\ calls[e][1].generation = 0

\* Under a window of 1 and epsilon 0, Run has converged at generation 0 on
\* candidates of scores -5 and -8, after one callback.
C24_Witness ==
    /\ run["a"].pc = "converged"
    /\ run["a"].i = 0
    /\ eng["a"].convergenceGenerations = 1
    /\ eng["a"].convergenceThreshold = Zero
    /\ run["a"].tops = <<Rat(-5, 1)>>
    /\ Len(calls["a"]) = 1

\* The largest of the scores of a sequence that is not empty.
MaxScore(scores) ==
    CHOOSE f \in {scores[k] : k \in 1 .. Len(scores)} :
        \A k \in 1 .. Len(scores) : RGe(f, scores[k])

\* Engine e updates the Best-So-Far tracker of a generation in this step.
Updates(e) == run[e].pc = "best" /\ run'[e].pc = "converge"

\* C25: once a generation has been examined, the score of the Best-So-Far
\* tracker is the largest of the top scores of all the generations
\* examined; the tracker is replaced, by the top of the generation, exactly
\* when it is nil or the generation's top score is strictly above its own:
\* on an equal score the candidate recorded earlier stays.
C25_BestIsMaxOfTops ==
    /\ [](\A e \in Live :
            Len(run[e].tops) >= 1 => BestFitness(e) = MaxScore(run[e].tops))
    /\ [][\A e \in Live :
            Updates(e) =>
               LET top == eng[e].Population[1]
                   above == Best(e) = Nil
                            \/ RGt(Fitness(heap[e][top]), BestFitness(e))
               IN  eng'[e].BestChromosome = IF above THEN top ELSE Best(e)]_vars
    /\ [][\A e \in Live : ~Updates(e) => eng'[e].BestChromosome = Best(e)]_vars

\* In a generation after the first, the top of the population is another
\* candidate of the tracker's own score, and the tracker has kept the one
\* it had.
C25_Witness ==
    /\ run["a"].pc = "converge"
    /\ run["a"].i >= 1
    /\ eng["a"].Population[1] # Best("a")
    /\ Fitness(heap["a"][eng["a"].Population[1]]) = BestFitness("a")

\* The places of Run that follow one another within a generation and from
\* one generation to the next.
Order ==
    {<<"idle", "failed">>, <<"idle", "sort">>,
     <<"sort", "best">>, <<"best", "converge">>,
     <<"converge", "callback">>, <<"converge", "converged">>,
     <<"callback", "next">>, <<"next", "fill">>,
     <<"fill", "select">>, <<"select", "crossover">>, <<"crossover", "decide">>,
     <<"decide", "unlock">>, <<"unlock", "mutate">>,
     <<"mutate", "fill">>, <<"mutate", "redraw">>, <<"redraw", "fill">>,
     <<"fill", "sort">>, <<"fill", "completed">>}

\* C26: within every generation the steps come in this order: sort,
\* tracker update, convergence check, callback, building of the next
\* generation, replacement of the population.  So the candidate given to
\* the callback of generation g is the tracker after the update of
\* generation g, of a score no less than generation g's top score; and the
\* elite seated into generation g+1 is that same tracker.
C26_StepsInOrder ==
    /\ [][\A e \in Live :
            run'[e].pc # run[e].pc => <<run[e].pc, run'[e].pc>> \in Order]_vars
    /\ [][\A e \in Live :
            calls'[e] # calls[e] =>
               /\ Len(run[e].tops) = run[e].i + 1
               /\ Best(e) # Nil
               /\ calls'[e] = Append(calls[e], [generation |-> run[e].i, best |-> Best(e)])
               /\ BestFitness(e) = MaxScore(run[e].tops)
               /\ RGe(BestFitness(e), run[e].tops[run[e].i + 1])]_vars
    /\ [][\A e \in Live :
            (run[e].pc = "next" /\ run'[e].pc = "fill") =>
               /\ Len(run[e].tops) = run[e].i + 1
               /\ eng[e].progressCallback => Len(calls[e]) = run[e].i + 1
               /\ eng[e].Elitism =>
                     /\ Best(e) # Nil
                     /\ run'[e].nextGeneration[1] = Best(e)
                     /\ BestFitness(e) = MaxScore(run[e].tops)]_vars
    /\ [][\A e \in Live :
            eng'[e].Population # eng[e].Population =>
               \/ run[e].pc = "sort"
               \/ /\ run[e].pc = "fill"
                  /\ eng'[e].Population = run[e].nextGeneration
                  /\ eng[e].progressCallback => Len(calls[e]) = run[e].i + 1]_vars

\* Generation 1 found a better candidate than generation 0: its callback
\* was given the new best, and the new best is seated as the elite of
\* generation 2.
C26_Witness ==
    /\ run["a"].pc = "fill"
    /\ run["a"].i = 1
    /\ eng["a"].Elitism
    /\ Len(calls["a"]) = 2
    /\ calls["a"][2].best # calls["a"][1].best
    /\ run["a"].nextGeneration[1] = calls["a"][2].best

\* The scores of population are non-increasing from the first slot on.
Descending(h, population) ==
    \A k \in 1 .. Len(population) - 1 :
        RGe(Fitness(h[population[k]]), Fitness(h[population[k + 1]]))

\* C27: when Run detects convergence at generation g it invokes the
\* callback once for generation g, with g and the best of that moment, and
\* stops: that step and every later one leave the population, the
\* candidates and every random source as they were, the population is the
\* sorted population of generation g, no next generation was begun, and no
\* generation after g is examined.
C27_ConvergedStopsAtOnce ==
    /\ [][\A e \in Live :
            (run[e].pc = "converge" /\ run'[e].pc = "converged") =>
               /\ calls'[e] = IF eng[e].progressCallback
                              THEN Append(calls[e],
                                       [generation |-> run[e].i, best |-> Best(e)])
                              ELSE calls[e]
               /\ eng'[e] = eng[e]
               /\ heap'[e] = heap[e]
               /\ streams' = streams
               /\ global' = global]_vars
    /\ [][\A e \in Live :
            run[e].pc = "converged" =>
               /\ run'[e] = run[e] /\ eng'[e] = eng[e] /\ heap'[e] = heap[e]
               /\ calls'[e] = calls[e] /\ streams' = streams /\ global' = global]_vars
    /\ [](\A e \in Live :
            run[e].pc = "converged" =>
               /\ Len(run[e].tops) = run[e].i + 1
               /\ Descending(heap[e], eng[e].Population)
               /\ Fitness(heap[e][eng[e].Population[1]]) = run[e].tops[run[e].i + 1]
               /\ run[e].nextGeneration = <<>>
               /\ run[e].parents = <<>> /\ run[e].offspring = Nil
               /\ ~eng[e].mu
               /\ eng[e].progressCallback =>
                     /\ Len(calls[e]) = run[e].i + 1
                     /\ Cardinality({k \in 1 .. Len(calls[e]) :
                                        calls[e][k].generation = run[e].i}) = 1
                     /\ calls[e][Len(calls[e])] =
                           [generation |-> run[e].i, best |-> Best(e)])

\* Run has converged at generation 1, after breeding one generation, with
\* generations left in its budget.
C27_Witness ==
    /\ run["a"].pc = "converged"
    /\ run["a"].i = 1
    /\ eng["a"].Generations = MaxGen
    /\ eng["a"].rng.pos > 0
    /\ Len(calls["a"]) = 2

\* Engine e sorts its population in this step.
Sorts(e) == run[e].pc = "sort" /\ run'[e].pc = "best"

\* The slot of candidate c in a population that holds it once.
Slot(population, c) == CHOOSE k \in 1 .. Len(population) : population[k] = c

\* sorted holds the candidates of equal scores in the order population
\* held them.
KeepsTies(h, population, sorted) ==
    \A j, k \in 1 .. Len(population) :
        (j < k /\ Fitness(h[population[j]]) = Fitness(h[population[k]])) =>
            Slot(sorted, population[j]) < Slot(sorted, population[k])

\* The sort of a step of engine e orders the scores from high to low over
\* the same candidates.
SortsDescending(e) ==
    /\ Len(eng'[e].Population) = Len(eng[e].Population)
    /\ \A c \in Members(eng[e].Population) :
          Cardinality({k \in 1 .. Len(eng[e].Population) : eng'[e].Population[k] = c})
          = Cardinality({k \in 1 .. Len(eng[e].Population) : eng[e].Population[k] = c})
    /\ heap'[e] = heap[e]
    /\ Descending(heap[e], eng'[e].Population)

Drawn(t, k) ==
    [j \in 1 .. k |->
        At(trial.population,
           Intn(trial.stream.vals[(t - 1) * k + j], Len(trial.population)))]

\* Each tournament of the first selector drew k candidates, and its winner
\* is the first drawn of those of the highest score.
WinnersOf(k) ==
    /\ trial.pos[1] = 2 * k
    /\ Len(trial.stream.vals) = 2 * k
    /\ \A t \in 1 .. 2 :
          LET drawn == Drawn(t, k)
              winner == trial.parents[1][t]
              tops == {j \in 1 .. k :
                         \A x \in 1 .. k : RGe(Fitness(trial.h[drawn[j]]),
                                                Fitness(trial.h[drawn[x]]))}
          IN  winner = drawn[Min(tops)]

\* The first selector has been called on a population that is not empty.
FirstSelected ==
    trial.op = "select" /\ trial.made = 1 /\ Len(trial.population) > 0

\* C29, as stated: each tournament draws k candidates, k being the
\* configured size clamped to 1 .. N, and its winner is the first drawn of
\* those of the highest score.
C29_Original ==
    FirstSelected =>
        LET N == Len(trial.population)
            size == trial.selectors[1]
        IN  WinnersOf(IF size < 1 THEN 1 ELSE IF size > N THEN N ELSE size)

\* C29, amended: each tournament draws k candidates, with replacement, k
\* being the configured size, or 2 when that is <= 0, and at most N; its
\* winner is the first drawn of those of the highest score among the k.
C29_TournamentWinner ==
    FirstSelected =>
        LET N == Len(trial.population)
            size == trial.selectors[1]
            k == IF size <= 0 THEN 2 ELSE size
        IN  WinnersOf(IF k > N THEN N ELSE k)

\* A tournament of two on two candidates of equal scores drew the second
\* and then the first, and the second has won.
C29_Witness ==
    /\ FirstSelected
    /\ Len(trial.population) = 2
    /\ Fitness(trial.h[1]) = Fitness(trial.h[2])
    /\ trial.selectors[1] = 2
    /\ trial.stream.vals[1] = 1 /\ trial.stream.vals[2] = 0
    /\ trial.parents[1][1] = 2

\* The cut indices of a crossover trial, in order.
CutStart == IF trial.r1 > trial.r2 THEN trial.r2 ELSE trial.r1
CutEnd == IF trial.r1 > trial.r2 THEN trial.r1 ELSE trial.r2

\* The points of parent2 read cyclically from the position after end,
\* without those of parent1's segment start..end.
Remainder(parent1, parent2, start, end) ==
    LET n == Len(parent2)
        InSegment(city) == \E k \in start .. end : At(parent1, k) = city
        Outside(city) == ~InSegment(city)
    IN  SelectSeq([m \in 1 .. n |-> At(parent2, (end + m) % n)], Outside)

\* C30: for permutation parents of equal length the child of the order
\* crossover holds parent 1's points at the positions start..end, and its
\* other positions, read cyclically from end+1, hold the points of parent 2
\* that are not in that segment, in the cyclic order they have in parent 2
\* from position end+1 on; the fill writes to no position of the segment.
C30_OrderCrossoverLayout ==
    (trial.op = "crossed" /\ PermutationParents(trial.parent1, trial.parent2)) =>
        LET n == Len(trial.parent1)
            rest == Remainder(trial.parent1, trial.parent2, CutStart, CutEnd)
        IN  /\ CutStart <= CutEnd /\ CutEnd < n
            /\ Len(trial.child) = n
            /\ \A k \in CutStart .. CutEnd :
                  At(trial.child, k) = At(trial.parent1, k)
            /\ Len(rest) = n - (CutEnd - CutStart + 1)
            /\ \A m \in 1 .. Len(rest) :
                  At(trial.child, (CutEnd + m) % n) = rest[m]

\* A crossover of two different routes of the largest size whose segment
\* lies inside the route, so that the fill wraps around the end of the
\* child and skips points of parent 2.
C30_Witness ==
    /\ trial.op = "crossed"
    /\ PermutationParents(trial.parent1, trial.parent2)
    /\ Len(trial.parent1) = MaxCities
    /\ CutStart = 1 /\ CutEnd = 2
    /\ trial.parent1 # trial.parent2
    /\ At(trial.child, 0) # At(trial.parent1, 0)
    /\ At(trial.child, 0) # At(trial.parent2, 0)

\* Whether a crossover trial takes the fallback path of Crossover.
Incompatible(parent1, parent2) ==
    Len(parent1) # Len(parent2) \/ Len(parent1) < 2

\* C31: when the parents' lengths differ, or the first parent has fewer
\* than 2 points, Crossover returns a child whose route is the first
\* parent's route point by point; it draws no cut point and reads no
\* position outside either parent.
C31_FallbackCopiesFirstParent ==
    (trial.op = "crossed" /\ Incompatible(trial.parent1, trial.parent2)) =>
        /\ Len(trial.child) = Len(trial.parent1)
        /\ \A k \in 1 .. Len(trial.parent1) : trial.child[k] = trial.parent1[k]
        /\ trial.draws = 0
        /\ \A rd \in trial.reads :
              /\ rd[1] = 1 => rd[2] \in 0 .. Len(trial.parent1) - 1
              /\ rd[1] = 2 => rd[2] \in 0 .. Len(trial.parent2) - 1

\* A crossover of a route of three points with a longer one: every point of
\* the first parent is read and copied.
C31_Witness ==
    /\ trial.op = "crossed"
    /\ Len(trial.parent1) = 3
    /\ Len(trial.parent2) > 3
    /\ trial.child = trial.parent1
    /\ trial.reads = {<<1, 0>>, <<1, 1>>, <<1, 2>>}

\* C32: Crossover leaves both parents' routes as they were and gives the
\* child an array of its own, so that a Mutate of the child changes neither
\* parent, on the Order Crossover path and on the copy path alike.
C32_ParentsUntouched ==
    trial.op = "crossed" =>
        /\ trial.child \notin {trial.parent1, trial.parent2}
        /\ trial.arrays[trial.parent1] = trial.before[trial.parent1]
        /\ trial.arrays[trial.parent2] = trial.before[trial.parent2]

\* The child of the copy path, mutated once: its route has the points of
\* the first parent in another order.
C32_Witness ==
    /\ trial.op = "crossed"
    /\ trial.mutations = 1
    /\ Len(trial.arrays[trial.parent1]) = 3
    /\ Len(trial.arrays[trial.parent2]) = 2
    /\ trial.arrays[trial.child] # trial.arrays[trial.parent1]
    /\ SameMultiset(trial.arrays[trial.child], trial.arrays[trial.parent1])

\* Whether the points of a route have pairwise distinct names.
DistinctNames(route) ==
    \A j, k \in 1 .. Len(route) : route[j].Name = route[k].Name => j = k

\* C33: a route with pairwise distinct names crossed with itself gives,
\* whatever its length and whatever the cut points, a child with the same
\* point at every position, and so with the same score.
C33_SelfCrossoverClones ==
    (/\ trial.op = "crossed"
     /\ trial.parent2 = trial.parent1
     /\ DistinctNames(trial.parent1)) =>
        /\ Len(trial.child) = Len(trial.parent1)
        /\ \A k \in 1 .. Len(trial.parent1) : trial.child[k] = trial.parent1[k]
        /\ TSPFitness(trial.child) = TSPFitness(trial.parent1)

\* A route of the largest size, not in the order of the names, crossed
\* with itself on a segment inside the route: the fill wraps around.
C33_Witness ==
    /\ trial.op = "crossed"
    /\ trial.parent2 = trial.parent1
    /\ Len(trial.parent1) = MaxCities
    /\ trial.parent1 # Line(MaxCities)
    /\ trial.r1 = 2 /\ trial.r2 = 1
    /\ trial.child = trial.parent1
    /\ TSPFitness(trial.child) # Zero

\* The positions at which two routes of one length differ.
Differing(route1, route2) == {k \in 1 .. Len(route1) : route1[k] # route2[k]}

\* Whether after is before with the points at two different positions
\* exchanged and every other position as it was.
Exchanged(before, after) ==
    /\ Len(after) = Len(before)
    /\ \E i, j \in 1 .. Len(before) :
          /\ i # j
          /\ after[i] = before[j]
          /\ after[j] = before[i]
          /\ \A k \in 1 .. Len(before) \ {i, j} : after[k] = before[k]

\* C34: one Mutate call on a route of 2 points or more exchanges the points
\* at two different positions and leaves the others alone, so that a route
\* of pairwise different points differs at exactly two positions afterwards;
\* on a route of 0 or 1 points it changes nothing and draws nothing.
C34_MutateExchangesTwo ==
    [][trial'.mutations = trial.mutations + 1 =>
         IF Len(trial.Route) < 2
         THEN trial'.Route = trial.Route /\ trial'.drawn = 0
         ELSE /\ Exchanged(trial.Route, trial'.Route)
              /\ trial'.drawn >= 2
              /\ DistinctNames(trial.Route) =>
                    Cardinality(Differing(trial.Route, trial'.Route)) = 2]_vars

\* A first Mutate call on a route of the largest size that had to draw j
\* again and then exchanged two points.
C34_Witness ==
    /\ trial.op = "route"
    /\ trial.mutations = 1
    /\ trial.drawn = 3
    /\ Len(trial.original) = MaxCities
    /\ DistinctNames(trial.original)
    /\ Cardinality(Differing(trial.original, trial.Route)) = 2

\* The candidates engine e has placed: the members of its population, the
\* seated entries of the generation under construction (the elite among
\* them) and the best so far.
Placed(e) ==
    (Members(eng[e].Population)
     \cup {run[e].nextGeneration[k] : k \in 1 .. run[e].nextIndex}
     \cup {Best(e)}) \ {Nil}

\* Whether engine e is inside a Mutate call.
Mutating(e) == run[e].pc \in {"mutate", "redraw"} /\ run[e].shouldMutate

\* C35: at every Mutate call of Run the receiver is the offspring that the
\* Crossover of this turn of the fill loop has just created; it is no
\* member of the population, not the best so far and not seated yet; and
\* no placed candidate changes its value, so none changes its score.
C35_OnlyFreshOffspringMutated ==
    /\ [](Mutating("a") =>
            /\ MutateReceiver("a") = run["a"].offspring
            /\ run["a"].offspring = run["a"].nextId - 1
            /\ run["a"].offspring \notin Placed("a"))
    /\ [][\A x \in Placed("a") \cap DOMAIN heap'["a"] :
             /\ heap'["a"][x] = heap["a"][x]
             /\ Fitness(heap'["a"][x]) = Fitness(heap["a"][x])]_vars

\* With elitism, a mutated copy of the best candidate is seated next to
\* the elite, which has kept its score.
C35_Witness ==
    /\ eng["a"].Elitism
    /\ run["a"].pc = "fill"
    /\ run["a"].nextIndex = 2
    /\ Best("a") # Nil
    /\ run["a"].nextGeneration[1] = Best("a")
    /\ Fitness(heap["a"][run["a"].nextGeneration[2]])
         = RAdd(Fitness(heap["a"][Best("a")]), Rat(1, 10))
    /\ Fitness(heap["a"][Best("a")]) = run["a"].currentBestFitness

\* The score of the tracker of engine e, which is not nil.
TrackerScore(e) == Fitness(heap[e][Best(e)])

\* C36: with elitism the top score of every sorted generation is at least
\* the score the tracker had before, so that the top scores of the examined
\* generations never decrease and the tracker's score is the top score of
\* the last generation examined; without elitism the tracker keeps the
\* largest top score whatever the later generations score.
C36_ElitismKeepsTopScore ==
    /\ (eng["a"].Elitism /\ run["a"].pc = "best" /\ Best("a") # Nil) =>
           RGe(Fitness(heap["a"][At(eng["a"].Population, 0)]), TrackerScore("a"))
    /\ (eng["a"].Elitism /\ Len(run["a"].tops) >= 1) =>
           /\ Best("a") # Nil
           /\ TrackerScore("a") = run["a"].tops[Len(run["a"].tops)]
           /\ \A g \in 2 .. Len(run["a"].tops) :
                 RGe(run["a"].tops[g], run["a"].tops[g - 1])
    /\ (~eng["a"].Elitism /\ Len(run["a"].tops) >= 1) =>
           /\ Best("a") # Nil
           /\ TrackerScore("a") = MaxScore(run["a"].tops)

\* With elitism, three generations examined, each with a larger top score
\* than the one before, and the tracker at the last of them.
C36_Witness ==
    /\ eng["a"].Elitism
    /\ Len(run["a"].tops) = 3
    /\ RGt(run["a"].tops[2], run["a"].tops[1])
    /\ RGt(run["a"].tops[3], run["a"].tops[2])
    /\ Best("a") # Nil
    /\ TrackerScore("a") = run["a"].tops[3]

\* Without elitism, a generation whose top score is below the score of the
\* tracker, which is still the top of the first generation.
TopBelowTracker ==
    /\ ~eng["a"].Elitism
    /\ Len(run["a"].tops) = 2
    /\ Best("a") # Nil
    /\ RLt(run["a"].tops[2], TrackerScore("a"))
    /\ TrackerScore("a") = run["a"].tops[1]

\* Whether the options of New name no selector: WithSelector is left out,
\* or is given nil.
WithoutSelector(options) ==
    "Selector" \notin DOMAIN options \/ ~options["Selector"].set

\* C37: an engine New has built has a selector: the tournament selector of
\* size 2 when WithSelector is left out or is given nil, the selector given
\* otherwise; Validate never answers such an engine that its selector is nil.
C37_ConstructorInstallsSelector ==
    trial.op \in {"built", "validated"} =>
        /\ eng["a"].selector.set
        /\ WithoutSelector(trial.options) =>
              eng["a"].selector = TournamentSelector(2)
        /\ ~WithoutSelector(trial.options) =>
              eng["a"].selector = trial.options["Selector"]
        /\ trial.err # "selector cannot be nil"

\* New was given a nil selector and an otherwise valid configuration, and
\* Validate has accepted the engine.
C37_Witness ==
    /\ trial.op = "validated"
    /\ "Selector" \in DOMAIN trial.options
    /\ trial.options["Selector"] = NoSelector
    /\ eng["a"].selector = TournamentSelector(2)
    /\ trial.err = NoError

\* Engine e sorts its population in this step.
SortsNow(e) == run[e].pc = "sort" /\ run'[e].pc = "best"

\* C38: when Run has completed a budget of G generations, the generations
\* 0..G-1 have each been sorted and compared with the tracker, once, and the
\* population has been replaced G times; the population left is the
\* generation built last, which no step has scored, so that the tracker's
\* score is the largest top score of the generations 0..G-1.
C38_CompletedAfterBudget ==
    /\ [](run["a"].pc = "completed" =>
            /\ run["a"].i = eng["a"].Generations
            /\ Len(run["a"].tops) = eng["a"].Generations
            /\ Best("a") # Nil
            /\ BestFitness("a") = MaxScore(run["a"].tops))
    /\ [][SortsNow("a") =>
             /\ run["a"].i < eng["a"].Generations
             /\ Len(run["a"].tops) = run["a"].i]_vars
    /\ [][Replaces("a") =>
             /\ Len(run["a"].tops) = run["a"].i + 1
             /\ run'["a"].i = run["a"].i + 1
             /\ eng'["a"].Population = run["a"].nextGeneration
             /\ eng'["a"].BestChromosome = Best("a")]_vars
    /\ [][~Replaces("a") => run'["a"].i = run["a"].i]_vars

\* Run has completed a budget of two generations and has left a population
\* with a candidate that scores above the tracker.
C38_Witness ==
    /\ run["a"].pc = "completed"
    /\ eng["a"].Generations = 2
    /\ Len(run["a"].tops) = 2
    /\ Best("a") # Nil
    /\ \E k \in 1 .. Len(eng["a"].Population) :
          RGt(Fitness(heap["a"][eng["a"].Population[k]]), BestFitness("a"))

=============================================================================
